---------------------------- MODULE Spec2Model ----------------------------
(***************************************************************************)
(* A model of the annotation core of the label editor: the DAT codec       *)
(* (core/file_io.py), the save path of the window (ui/main_window.py,      *)
(* business/label_logic.py), the gesture state of the canvas                *)
(* (ui/canvas_widget.py, business/canvas_logic.py), the OCR completion     *)
(* path (ui/event_handlers.py), the view transform and the box rotation.   *)
(*                                                                         *)
(* Text is modelled as a sequence of characters, each character a string;  *)
(* the characters outside ASCII carry their code point as name ("u2018").  *)
(* Python floats are modelled by exact rationals; the zoom part keeps them *)
(* to 1/ZU.                                                                *)
(***************************************************************************)
EXTENDS Integers, Sequences, FiniteSets, TLC

VARIABLES
    \* ---- DAT codec: a file and the list parsed from / written to it
    dat_file,       \* the characters of the .dat file
    dat_boxes,      \* the list of BoundingBox in memory
    dat_in,         \* the input the run started from (a file or a list)
    dat_op,         \* the operations applied so far, oldest first
    \* ---- the window's save path (LabelEditorWindow, LabelManager)
    sv_boxes,       \* canvas.boxes, the list being edited
    sv_sel,         \* canvas.selected_box as an index into sv_boxes, 0 = None
    sv_disk,        \* the characters of the current image's .dat file
    win_unsaved,    \* LabelEditorWindow.unsaved_changes
    lm_unsaved,     \* LabelManager.unsaved_changes
    sv_timer,       \* _auto_save_timeout: TRUE while a timer is pending
    sv_last,        \* the last operation, its I/O outcome and its result
    \* ---- the interaction controller: one object that is an ImageCanvas,
    \* a CanvasState with its BoxInteractionManager, or a LabelManager
    \* (the three classes name these fields alike)
    impl,           \* the class of the object
    pixbuf,         \* ImageCanvas.pixbuf is set (an image is loaded)
    boxes,          \* boxes: the list of BoundingBox, coordinates in 1/Q
    selected_box,   \* selected_box as an index into boxes, 0 = None
    scale_factor,   \* scale_factor as <<numerator, denominator>>
    offset,         \* <<offset_x, offset_y>> in 1/Q
    panning, dragging, resizing, creating_box,
    resize_handle,  \* "none" = None
    pan_start,      \* <<pan_start_x, pan_start_y>>
    drag_start,     \* <<drag_start_x, drag_start_y>>
    box_start,      \* <<box_start_x, box_start_y, box_start_width,
                    \*   box_start_height>> in 1/Q
    g_last,         \* the last call and what it was given
    g_events,       \* how many events and calls were delivered
    \* ---- OCR on the selected box (EventHandlerMixin, OCRProcessor)
    ocr_box_text,   \* per box of canvas.boxes: ocr_text and who wrote it
    ocr_selected,   \* canvas.selected_box as an index, 0 = None
    ocr_button,     \* the OCR button is sensitive
    ocr_threads,    \* the worker threads running _run_ocr_thread
    ocr_idle,       \* the callbacks queued with GLib.idle_add, in order
    ocr_dialogs,    \* the question dialogs presented and not yet answered
    ocr_jobs,       \* how many OCR runs were started
    \* ---- the coordinate transforms as functions
    xf_in,          \* the image point, the offset and the scale factor
    xf_canvas,      \* image_to_canvas of the point, <<>> before the call
    xf_back,        \* canvas_to_image of that, <<>> before the call
    \* ---- zoom (ImageCanvas, CanvasState); floats in units of 1/ZU
    z_impl,         \* the class of the object
    zoom_level,
    base_scale_factor,  \* <<numerator, denominator>>
    z_scale,        \* scale_factor
    z_offset,       \* <<offset_x, offset_y>>
    z_size,         \* <<canvas width, canvas height, image width, height>>
    z_run,          \* the call repeated last, and how many times in a row
    z_pans,         \* calls counted from the first pan on; 0: never panned
    \* ---- rotation of the boxes with their image (ImageRotator)
    rot_boxes,      \* the boxes, rotated as the image was
    rot_size,       \* <<width, height>> of the image as it is now
    rot_in,         \* the boxes and the size the run started from
    rot_ops,        \* the angles applied so far, oldest first
    \* ---- the auto-save timer (on_ocr_text_changed, _delayed_auto_save)
    db_sources,     \* GLib's timeout sources: id and milliseconds left
    db_timeout,     \* _auto_save_timeout: a source id, 0 = None
    db_unsaved,     \* unsaved_changes
    db_since_edit,  \* milliseconds since the last edit, -1 before any
    db_count,       \* since the last edit: timer expiries, saves by the
                    \* timer, saves by the user
    db_last,        \* the last step and, for an expiry, its time
    \* ---- validation: the class configuration, the files, the cache
    val_config,     \* class_config["classes"]
    val_disk,       \* per file: is it an image, and its .dat file if any
    val_cache,      \* validation_cache: file -> validation result
    val_out,        \* the last call and what it returned
    \* ---- OCR region: the box and the image of one OCR run
    reg_box,        \* x, y, width, height of the box, in units of 1/Q
    reg_image,      \* what cv2.imread returned: None or the image's size
    reg_out,        \* the region cut out and where the run went
    \* ---- deletion history: LabelManager and its SQLite table
    hist_boxes,     \* LabelManager.boxes
    hist_selected,  \* index of selected_box in hist_boxes, 0 for None
    hist_db,        \* the rows of deletion_history, in order of id
    hist_clock,     \* CURRENT_TIMESTAMP, in seconds
    hist_deleted,   \* per image path, the boxes deleted and not restored
    hist_out,       \* the last call and what it returned
    \* ---- class of a new box
    cls_config,     \* the ids of class_config["classes"], in order
    cls_boxes,      \* the class_id of each box of the list, in order
    cls_out,        \* the last creation: by whom, from which list, which id
    \* ---- CanvasState with one box of BoxInteractionManager
    geo_canvas,     \* <<canvas_width, canvas_height>>
    geo_image,      \* <<image_width, image_height>>
    geo_scale,      \* scale_factor as <<numerator, denominator>>
    geo_offset,     \* <<offset_x, offset_y>>
    geo_start,      \* resize_handle and box_start_x, _y, _width, _height
    geo_box,        \* the box: x, y, width, height
    geo_out,        \* the last call, what it returned or raised
    geo_events,     \* calls made so far
    \* ---- fit to canvas, in ImageCanvas and in CanvasState
    fit_impl,       \* which of the two objects
    fit_canvas,     \* <<canvas width, canvas height>>
    fit_pixbuf,     \* <<image width, image height>>; <<0, 0>>: no pixbuf
    fit_view,       \* base_scale_factor, scale_factor, offset_x, offset_y
    fit_out,        \* the last call and the view before it
    \* ---- navigation between the images of a directory
    nav_pm,         \* ProjectManager: image_files, current_index, paths
    nav_disk,       \* image name -> [exists, boxes] of its .dat file
    nav_boxes,      \* canvas.boxes of the window
    nav_unsaved,    \* unsaved_changes of the window
    nav_confirmed,  \* names of the images marked confirmed
    nav_out,        \* the last call, its result and the state before it
    \* ---- RotationManager
    original_pixbuf,        \* whether an image is loaded
    current_rotation,       \* degrees
    has_unsaved_rotation,
    rm_applied,     \* the angles applied since the last load, reset or
                    \* overwriting save, oldest first
    rm_out          \* the last call, its result and the state before it

datVars == <<dat_file, dat_boxes, dat_in, dat_op>>

saveVars == <<sv_boxes, sv_sel, sv_disk, win_unsaved, lm_unsaved, sv_timer,
              sv_last>>

gestVars == <<impl, pixbuf, boxes, selected_box, scale_factor, offset,
              panning, dragging, resizing, creating_box, resize_handle,
              pan_start, drag_start, box_start, g_last, g_events>>

ocrVars == <<ocr_box_text, ocr_selected, ocr_button, ocr_threads, ocr_idle,
             ocr_dialogs, ocr_jobs>>

xfVars == <<xf_in, xf_canvas, xf_back>>

zoomVars == <<z_impl, zoom_level, base_scale_factor, z_scale, z_offset,
              z_size, z_run, z_pans>>

rotVars == <<rot_boxes, rot_size, rot_in, rot_ops>>

dbVars == <<db_sources, db_timeout, db_unsaved, db_since_edit, db_count,
            db_last>>

valVars == <<val_config, val_disk, val_cache, val_out>>

regVars == <<reg_box, reg_image, reg_out>>

histVars == <<hist_boxes, hist_selected, hist_db, hist_clock, hist_deleted,
              hist_out>>

clsVars == <<cls_config, cls_boxes, cls_out>>

geoVars == <<geo_canvas, geo_image, geo_scale, geo_offset, geo_start, geo_box,
             geo_out, geo_events>>

fitVars == <<fit_impl, fit_canvas, fit_pixbuf, fit_view, fit_out>>

navVars == <<nav_pm, nav_disk, nav_boxes, nav_unsaved, nav_confirmed,
            nav_out>>

rmVars == <<original_pixbuf, current_rotation, has_unsaved_rotation,
            rm_applied, rm_out>>

vars == <<datVars, saveVars, gestVars, ocrVars, xfVars, zoomVars, rotVars,
          dbVars, valVars, regVars, histVars, clsVars, geoVars, fitVars,
          navVars, rmVars>>

\* What the actions of one part leave alone: the variables of the others.
notDat == <<saveVars, gestVars, ocrVars, xfVars, zoomVars, rotVars, dbVars,
            valVars, regVars, histVars, clsVars, geoVars, fitVars, navVars,
            rmVars>>
notSave == <<datVars, gestVars, ocrVars, xfVars, zoomVars, rotVars, dbVars,
             valVars, regVars, histVars, clsVars, geoVars, fitVars, navVars,
             rmVars>>
notGest == <<datVars, saveVars, ocrVars, xfVars, zoomVars, rotVars, dbVars,
             valVars, regVars, histVars, clsVars, geoVars, fitVars, navVars,
             rmVars>>
notOcr == <<datVars, saveVars, gestVars, xfVars, zoomVars, rotVars, dbVars,
            valVars, regVars, histVars, clsVars, geoVars, fitVars, navVars,
            rmVars>>
notXf == <<datVars, saveVars, gestVars, ocrVars, zoomVars, rotVars, dbVars,
           valVars, regVars, histVars, clsVars, geoVars, fitVars, navVars,
           rmVars>>
notZoom == <<datVars, saveVars, gestVars, ocrVars, xfVars, rotVars, dbVars,
             valVars, regVars, histVars, clsVars, geoVars, fitVars, navVars,
             rmVars>>
notRot == <<datVars, saveVars, gestVars, ocrVars, xfVars, zoomVars, dbVars,
            valVars, regVars, histVars, clsVars, geoVars, fitVars, navVars,
            rmVars>>
notDb == <<datVars, saveVars, gestVars, ocrVars, xfVars, zoomVars, rotVars,
           valVars, regVars, histVars, clsVars, geoVars, fitVars, navVars,
           rmVars>>
notVal == <<datVars, saveVars, gestVars, ocrVars, xfVars, zoomVars, rotVars,
            dbVars, regVars, histVars, clsVars, geoVars, fitVars, navVars,
            rmVars>>
notReg == <<datVars, saveVars, gestVars, ocrVars, xfVars, zoomVars, rotVars,
            dbVars, valVars, histVars, clsVars, geoVars, fitVars, navVars,
            rmVars>>
notHist == <<datVars, saveVars, gestVars, ocrVars, xfVars, zoomVars, rotVars,
             dbVars, valVars, regVars, clsVars, geoVars, fitVars, navVars,
             rmVars>>
notCls == <<datVars, saveVars, gestVars, ocrVars, xfVars, zoomVars, rotVars,
            dbVars, valVars, regVars, histVars, geoVars, fitVars, navVars,
            rmVars>>
notGeo == <<datVars, saveVars, gestVars, ocrVars, xfVars, zoomVars, rotVars,
            dbVars, valVars, regVars, histVars, clsVars, fitVars, navVars,
            rmVars>>
notFit == <<datVars, saveVars, gestVars, ocrVars, xfVars, zoomVars, rotVars,
            dbVars, valVars, regVars, histVars, clsVars, geoVars, navVars,
            rmVars>>
notNav == <<datVars, saveVars, gestVars, ocrVars, xfVars, zoomVars, rotVars,
            dbVars, valVars, regVars, histVars, clsVars, geoVars, fitVars,
            rmVars>>
notRm == <<datVars, saveVars, gestVars, ocrVars, xfVars, zoomVars, rotVars,
           dbVars, valVars, regVars, histVars, clsVars, geoVars, fitVars,
           navVars>>

\* The parts a specification does not run stay as they are here.
OcrIdle ==
    /\ ocr_box_text = <<>>
    /\ ocr_selected = 0
    /\ ocr_button = TRUE
    /\ ocr_threads = {}
    /\ ocr_idle = <<>>
    /\ ocr_dialogs = {}
    /\ ocr_jobs = 0

XfIdle == xf_in = "none" /\ xf_canvas = <<>> /\ xf_back = <<>>

ZoomIdle ==
    /\ z_impl = "none"
    /\ zoom_level = 0
    /\ base_scale_factor = <<1, 1>>
    /\ z_scale = 0
    /\ z_offset = <<0, 0>>
    /\ z_size = <<0, 0, 0, 0>>
    /\ z_run = <<"none", 0>>
    /\ z_pans = 0

RotIdle ==
    /\ rot_boxes = <<>>
    /\ rot_size = <<0, 0>>
    /\ rot_in = "none"
    /\ rot_ops = <<>>

DbIdle ==
    /\ db_sources = {}
    /\ db_timeout = 0
    /\ db_unsaved = FALSE
    /\ db_since_edit = -1
    /\ db_count = <<0, 0, 0, 0, 0>>
    /\ db_last = <<"none", 0>>

ValIdle ==
    /\ val_config = <<>>
    /\ val_disk = <<>>
    /\ val_cache = <<>>
    /\ val_out = <<>>

RegIdle ==
    /\ reg_box = <<>>
    /\ reg_image = <<>>
    /\ reg_out = <<>>

HistIdle ==
    /\ hist_boxes = <<>>
    /\ hist_selected = 0
    /\ hist_db = <<>>
    /\ hist_clock = 0
    /\ hist_deleted = <<>>
    /\ hist_out = <<>>

ClsIdle ==
    /\ cls_config = <<>>
    /\ cls_boxes = <<>>
    /\ cls_out = <<>>

GeoIdle ==
    /\ geo_canvas = <<>>
    /\ geo_image = <<>>
    /\ geo_scale = <<>>
    /\ geo_offset = <<>>
    /\ geo_start = <<>>
    /\ geo_box = <<>>
    /\ geo_out = <<>>
    /\ geo_events = 0

FitIdle ==
    /\ fit_impl = "none"
    /\ fit_canvas = <<>>
    /\ fit_pixbuf = <<>>
    /\ fit_view = <<>>
    /\ fit_out = <<>>

NavIdle ==
    /\ nav_pm = <<>>
    /\ nav_disk = <<>>
    /\ nav_boxes = <<>>
    /\ nav_unsaved = FALSE
    /\ nav_confirmed = {}
    /\ nav_out = <<>>

RmIdle ==
    /\ original_pixbuf = FALSE
    /\ current_rotation = 0
    /\ has_unsaved_rotation = FALSE
    /\ rm_applied = <<>>
    /\ rm_out = <<>>

RestIdle == OcrIdle /\ XfIdle /\ ZoomIdle /\ RotIdle /\ DbIdle /\ ValIdle /\ RegIdle /\ HistIdle /\ ClsIdle /\ GeoIdle /\ FitIdle /\ NavIdle /\ RmIdle

---------------------------------------------------------------------------
(* Characters and Python's string helpers                                  *)

SP == " "
TAB == "\t"
CR == "\r"
LF == "\n"
HASH == "#"

Whitespace == {SP, TAB, CR, LF}

Digits == <<"0", "1", "2", "3", "4", "5", "6", "7", "8", "9">>

IsDigit(c) == \E i \in 1..10 : Digits[i] = c

DigitVal(c) == (CHOOSE i \in 1..10 : Digits[i] = c) - 1

Min(a, b) == IF a <= b THEN a ELSE b

Max(a, b) == IF a >= b THEN a ELSE b

Abs(a) == IF a < 0 THEN -a ELSE a

\* Python's int(v) of a rational num/den, den > 0: truncation toward zero.
Trunc(num, den) == IF num >= 0 THEN num \div den ELSE -((-num) \div den)

\* Sequences over S of length 0..n.
SeqUpTo(S, n) == UNION {[1..k -> S] : k \in 0..n}

\* s.strip(): leading and trailing whitespace removed.
RECURSIVE LStrip(_)
LStrip(s) ==
    IF s # <<>> /\ Head(s) \in Whitespace THEN LStrip(Tail(s)) ELSE s

RECURSIVE RStrip(_)
RStrip(s) ==
    IF s # <<>> /\ s[Len(s)] \in Whitespace
    THEN RStrip(SubSeq(s, 1, Len(s) - 1))
    ELSE s

Strip(s) == RStrip(LStrip(s))

\* The index of the first occurrence of character c in s, 0 when absent.
IndexOf(s, c) ==
    IF \E i \in 1..Len(s) : s[i] = c
    THEN CHOOSE i \in 1..Len(s) : s[i] = c /\ \A j \in 1..(i - 1) : s[j] # c
    ELSE 0

\* s.split(c, 1): at most two parts, cut at the first c.
SplitFirst(s, c) ==
    LET i == IndexOf(s, c)
    IN  IF i = 0 THEN <<s>>
        ELSE <<SubSeq(s, 1, i - 1), SubSeq(s, i + 1, Len(s))>>

\* s.split(): the maximal runs of non-whitespace characters.
RECURSIVE SplitWs(_)
SplitWs(s) ==
    LET t == LStrip(s)
        ws == {i \in 1..Len(t) : t[i] \in Whitespace}
        e == IF ws = {} THEN Len(t) + 1
             ELSE CHOOSE i \in ws : \A j \in ws : i <= j
    IN  IF t = <<>> THEN <<>>
        ELSE <<SubSeq(t, 1, e - 1)>> \o SplitWs(SubSeq(t, e, Len(t)))

\* The value of a non-empty run of digits.
RECURSIVE DigitsVal(_)
DigitsVal(s) ==
    IF s = <<>> THEN 0
    ELSE 10 * DigitsVal(SubSeq(s, 1, Len(s) - 1)) + DigitVal(s[Len(s)])

AllDigits(s) == s # <<>> /\ \A i \in 1..Len(s) : IsDigit(s[i])

Unsigned(s) == IF s # <<>> /\ Head(s) \in {"-", "+"} THEN Tail(s) ELSE s

Signed(s, v) == IF s # <<>> /\ Head(s) = "-" THEN -v ELSE v

\* int(s) of Python for a string: optional whitespace around, optional sign,
\* then digits only.  ok = FALSE stands for ValueError.
PyInt(s) ==
    LET t == Strip(s)
        u == Unsigned(t)
    IN  IF AllDigits(u) THEN [ok |-> TRUE, val |-> Signed(t, DigitsVal(u))]
        ELSE [ok |-> FALSE, val |-> 0]

\* int(float(s)) of Python over the characters of the model (digits, sign,
\* point): digits with at most one point and at least one digit; the
\* fraction is cut off.  ok = FALSE stands for ValueError.
PyIntOfFloat(s) ==
    LET t == Strip(s)
        u == Unsigned(t)
        p == IndexOf(u, ".")
        ip == IF p = 0 THEN u ELSE SubSeq(u, 1, p - 1)
        fp == IF p = 0 THEN <<>> ELSE SubSeq(u, p + 1, Len(u))
        wellformed == /\ \A i \in 1..Len(ip) : IsDigit(ip[i])
                      /\ \A i \in 1..Len(fp) : IsDigit(fp[i])
                      /\ Len(ip) + Len(fp) > 0
    IN  IF wellformed THEN [ok |-> TRUE, val |-> Signed(t, DigitsVal(ip))]
        ELSE [ok |-> FALSE, val |-> 0]

\* str(n) of Python for an int.
RECURSIVE NatStr(_)
NatStr(n) ==
    IF n < 10 THEN <<Digits[n + 1]>>
    ELSE NatStr(n \div 10) \o <<Digits[(n % 10) + 1]>>

IntStr(n) == IF n < 0 THEN <<"-">> \o NatStr(-n) ELSE NatStr(n)

---------------------------------------------------------------------------
(* BoundingBox and the DAT codec                                           *)

\* BoundingBox.__init__: a new box is not selected.
BoundingBox(x, y, width, height, class_id, ocr_text) ==
    [x |-> x, y |-> y, width |-> width, height |-> height,
     class_id |-> class_id, ocr_text |-> ocr_text, selected |-> FALSE]

\* The lines a text-mode file iterates over: cut after LF, CR LF or CR
\* (universal newlines); the terminator is dropped here, as line.strip()
\* drops it in every use.
RECURSIVE FileLines(_)
FileLines(text) ==
    LET nl == {i \in 1..Len(text) : text[i] \in {CR, LF}}
        e == CHOOSE i \in nl : \A j \in nl : i <= j
        skip == IF text[e] = CR /\ e < Len(text) /\ text[e + 1] = LF
                THEN e + 1 ELSE e
    IN  IF text = <<>> THEN <<>>
        ELSE IF nl = {} THEN <<text>>
        ELSE <<SubSeq(text, 1, e - 1)>>
             \o FileLines(SubSeq(text, skip + 1, Len(text)))

\* One pass of the loop body of parse_dat_file over one line.  The result
\* is "box" (a box is appended), "skip" (the line yields nothing and the
\* loop goes on) or "raise" (int(parts[0]) raises ValueError, which only
\* the handler around the whole loop catches).
ParseLine(raw) ==
    LET line == Strip(raw)
        bySpace == SplitFirst(line, SP)
        parts == IF Len(bySpace) < 2 THEN SplitFirst(line, TAB) ELSE bySpace
        cls == PyInt(parts[1])
        coords_text == parts[2]
        cut == SplitFirst(coords_text, HASH)
        coord_part == cut[1]
        ocr_text == IF Len(cut) = 2 THEN cut[2] ELSE <<>>
        coords == SplitWs(Strip(coord_part))
        x == PyIntOfFloat(coords[1])
        y == PyIntOfFloat(coords[2])
        w == PyIntOfFloat(coords[3])
        h == PyIntOfFloat(coords[4])
    IN  IF line = <<>> THEN [kind |-> "skip"]
        ELSE IF Len(parts) < 2 THEN [kind |-> "skip"]
        ELSE IF ~cls.ok THEN [kind |-> "raise"]
        ELSE IF Len(coords) < 4 THEN [kind |-> "skip"]
        ELSE IF ~(x.ok /\ y.ok /\ w.ok /\ h.ok) THEN [kind |-> "skip"]
        ELSE [kind |-> "box",
              box |-> BoundingBox(x.val, y.val, w.val, h.val,
                                  cls.val, ocr_text)]

\* The loop of parse_dat_file: an exception leaves the loop with the boxes
\* appended so far.
RECURSIVE ParseLines(_, _)
ParseLines(lines, bs) ==
    IF lines = <<>> THEN bs
    ELSE LET r == ParseLine(Head(lines))
         IN  IF r.kind = "raise" THEN bs
             ELSE IF r.kind = "box"
                  THEN ParseLines(Tail(lines), Append(bs, r.box))
                  ELSE ParseLines(Tail(lines), bs)

\* DATParser.parse_dat_file
parse_dat_file(text) == ParseLines(FileLines(text), <<>>)


\* sorted(boxes, key=lambda b: b.class_id): stable, ascending class_id.
RECURSIVE InsertByClass(_, _)
InsertByClass(sorted, b) ==
    IF sorted = <<>> THEN <<b>>
    ELSE IF sorted[Len(sorted)].class_id <= b.class_id
         THEN Append(sorted, b)
         ELSE Append(InsertByClass(SubSeq(sorted, 1, Len(sorted) - 1), b),
                     sorted[Len(sorted)])

RECURSIVE SortedByClass(_)
SortedByClass(bs) ==
    IF bs = <<>> THEN <<>>
    ELSE InsertByClass(SortedByClass(SubSeq(bs, 1, Len(bs) - 1)),
                       bs[Len(bs)])

\* The characters outside ASCII that the model's texts use: the curly
\* quotes, the two ligatures and one accented letter.
NonAscii == {"u2018", "u2019", "u201c", "u201d", "ufb02", "ufb01", "u00c9"}

\* The chain of str.replace calls of save_dat_file on one character.
ReplaceChar(c) ==
    CASE c = "u2018" -> <<"'">>
      [] c = "u2019" -> <<"'">>
      [] c = "u201c" -> <<"\"">>
      [] c = "u201d" -> <<"\"">>
      [] c = "ufb02" -> <<"f", "l">>
      [] c = "ufb01" -> <<"f", "i">>
      [] OTHER -> <<c>>

\* The replacements, then encode('ascii', 'ignore').decode('ascii').
RECURSIVE SanitizeText(_)
SanitizeText(t) ==
    IF t = <<>> THEN <<>>
    ELSE LET r == ReplaceChar(Head(t))
         IN  (IF \E i \in 1..Len(r) : r[i] \in NonAscii THEN <<>> ELSE r)
             \o SanitizeText(Tail(t))

\* f"{box.class_id} {box.x} {box.y} {box.width} {box.height} #{ocr_text}"
DatLine(box) ==
    IntStr(box.class_id) \o <<SP>> \o IntStr(box.x) \o <<SP>>
    \o IntStr(box.y) \o <<SP>> \o IntStr(box.width) \o <<SP>>
    \o IntStr(box.height) \o <<SP, HASH>> \o SanitizeText(box.ocr_text)

\* '\r\n'.join(lines)
RECURSIVE JoinCRLF(_)
JoinCRLF(lines) ==
    IF lines = <<>> THEN <<>>
    ELSE IF Len(lines) = 1 THEN lines[1]
    ELSE lines[1] \o <<CR, LF>> \o JoinCRLF(Tail(lines))

\* The bytes DATParser.save_dat_file writes for a list of boxes.
save_dat_content(bs) ==
    LET sorted == SortedByClass(bs)
    IN  JoinCRLF([i \in 1..Len(sorted) |-> DatLine(sorted[i])])

---------------------------------------------------------------------------
(* The save path: edits mark the window unsaved, and save_dat_file,        *)
(* auto_save_current and _delayed_auto_save write the boxes through        *)
(* LabelManager.save_to_file and DATParser.save_dat_file.                  *)

MaxSvBoxes == 2

\* What the operating system does with open(path, 'wb') and f.write:
\* both succeed, open raises (the file is untouched), or open succeeds,
\* truncating the file, and write raises.
IoOutcomes == {"ok", "open_error", "write_error"}

\* Whether DATParser.save_dat_file raises to its caller: its handler
\* catches every Exception and prints it.
save_dat_file_raises(io) == FALSE

\* The file after DATParser.save_dat_file(path, boxes).
save_dat_file_disk(io, disk, bs) ==
    CASE io = "ok" -> save_dat_content(bs)
      [] io = "open_error" -> disk
      [] io = "write_error" -> <<>>

\* LabelManager.save_to_file: its result and the flag it leaves.
save_to_file(io, unsaved) ==
    IF save_dat_file_raises(io)
    THEN [ret |-> FALSE, unsaved |-> unsaved]
    ELSE [ret |-> TRUE, unsaved |-> FALSE]

SvTexts == {<<>>, <<"A">>, <<"B">>}

SvBoxSamples == {BoundingBox(12, 7, 10, 25, c, t) : c \in {1, 2}, t \in SvTexts}

\* The window after load_current_image: the boxes are those of the file.
SaveInit ==
    /\ \E bs \in SeqUpTo(SvBoxSamples, MaxSvBoxes) :
           /\ sv_boxes = bs
           /\ sv_disk = save_dat_content(bs)
    /\ sv_sel = 0
    /\ win_unsaved = FALSE
    /\ lm_unsaved = FALSE
    /\ sv_timer = FALSE
    /\ sv_last = [op |-> "load", io |-> "ok", was_unsaved |-> FALSE,
                  ret |-> TRUE]

SaveIdle ==
    /\ sv_boxes = <<>>
    /\ sv_sel = 0
    /\ sv_disk = <<>>
    /\ win_unsaved = FALSE
    /\ lm_unsaved = FALSE
    /\ sv_timer = FALSE
    /\ sv_last = [op |-> "load", io |-> "ok", was_unsaved |-> FALSE,
                  ret |-> TRUE]

Edited(op) == [op |-> op, io |-> "ok", was_unsaved |-> win_unsaved,
               ret |-> TRUE]

\* focus_label_by_index / a click on a box: the selection changes.
SvSelect ==
    /\ \E i \in 1..Len(sv_boxes) : i # sv_sel /\ sv_sel' = i
    /\ UNCHANGED <<sv_boxes, sv_disk, win_unsaved, lm_unsaved, sv_timer,
                   sv_last>>
    /\ UNCHANGED notSave

\* on_ocr_text_changed: the text goes to the selected box, on_boxes_changed
\* marks the window unsaved, the pending timer is removed and a new one
\* is added.
SvTextChanged ==
    /\ sv_sel # 0
    /\ \E t \in SvTexts :
           sv_boxes' = [sv_boxes EXCEPT ![sv_sel].ocr_text = t]
    /\ win_unsaved' = TRUE
    /\ sv_timer' = TRUE
    /\ sv_last' = Edited("on_ocr_text_changed")
    /\ UNCHANGED <<sv_sel, sv_disk, lm_unsaved>>
    /\ UNCHANGED notSave

\* on_delete_clicked: the selected box is removed, on_boxes_changed.
SvDeleteClicked ==
    /\ sv_sel # 0
    /\ sv_boxes' = SubSeq(sv_boxes, 1, sv_sel - 1)
                   \o SubSeq(sv_boxes, sv_sel + 1, Len(sv_boxes))
    /\ sv_sel' = 0
    /\ win_unsaved' = TRUE
    /\ sv_last' = Edited("on_delete_clicked")
    /\ UNCHANGED <<sv_disk, lm_unsaved, sv_timer>>
    /\ UNCHANGED notSave

\* LabelEditorWindow.save_dat_file (on_save): unsaved_changes is cleared
\* when save_to_file returns True.
SvSaveDatFile ==
    /\ \E io \in IoOutcomes :
        LET r == save_to_file(io, lm_unsaved)
        IN  /\ sv_disk' = save_dat_file_disk(io, sv_disk, sv_boxes)
            /\ lm_unsaved' = r.unsaved
            /\ win_unsaved' = IF r.ret THEN FALSE ELSE win_unsaved
            /\ sv_last' = [op |-> "save_dat_file", io |-> io,
                           was_unsaved |-> win_unsaved, ret |-> r.ret]
    /\ UNCHANGED <<sv_boxes, sv_sel, sv_timer>>
    /\ UNCHANGED notSave

\* LabelEditorWindow.auto_save_current (before navigation, on close):
\* the result of save_to_file is not looked at.
SvAutoSaveCurrent ==
    /\ win_unsaved
    /\ \E io \in IoOutcomes :
        LET r == save_to_file(io, lm_unsaved)
        IN  /\ sv_disk' = save_dat_file_disk(io, sv_disk, sv_boxes)
            /\ lm_unsaved' = r.unsaved
            /\ win_unsaved' = FALSE
            /\ sv_last' = [op |-> "auto_save_current", io |-> io,
                           was_unsaved |-> win_unsaved, ret |-> r.ret]
    /\ UNCHANGED <<sv_boxes, sv_sel, sv_timer>>
    /\ UNCHANGED notSave

\* _delayed_auto_save: the timer fires; the save happens when the window
\* is unsaved, and the timer is cleared either way.
SvDelayedAutoSave ==
    /\ sv_timer
    /\ sv_timer' = FALSE
    /\ \/ /\ win_unsaved
          /\ \E io \in IoOutcomes :
              LET r == save_to_file(io, lm_unsaved)
              IN  /\ sv_disk' = save_dat_file_disk(io, sv_disk, sv_boxes)
                  /\ lm_unsaved' = r.unsaved
                  /\ win_unsaved' = FALSE
                  /\ sv_last' = [op |-> "_delayed_auto_save", io |-> io,
                                 was_unsaved |-> win_unsaved, ret |-> r.ret]
          /\ UNCHANGED <<sv_boxes, sv_sel>>
       \/ /\ ~win_unsaved
          /\ UNCHANGED <<sv_boxes, sv_sel, sv_disk, win_unsaved, lm_unsaved,
                         sv_last>>
    /\ UNCHANGED notSave

---------------------------------------------------------------------------
(* The interaction controller.  Image-space coordinates are Python floats  *)
(* once a drag or a resize has divided by scale_factor; the model keeps    *)
(* them exactly, as multiples of 1/Q, for scale factors whose numerator    *)
(* divides Q.  Pointer positions are whole canvas pixels.                  *)

Q == 4

MinSize == 10
CreateThreshold == 10
HandleSize == 8
Step == 5
FineStep == 1

\* class_config["classes"]: the configured class ids, in order.
ClassIds == <<1, 2, 3>>

MaxGBoxes == 2
MaxCoord == 60
MaxPan == 20

Scales == {<<1, 1>>, <<1, 2>>, <<2, 1>>}

Handles == {"nw", "ne", "sw", "se", "n", "s", "e", "w"}

\* A box of the controller: BoundingBox with coordinates given in pixels.
GBox(x, y, width, height, class_id) ==
    BoundingBox(x * Q, y * Q, width * Q, height * Q, class_id, <<>>)

\* A faulty canvas_to_image that forgets the offset; C8 must tell it from
\* the real one.
canvas_to_image_no_offset(c, off, sf) == Trunc(c * Q * sf[2], Q * sf[1])

\* canvas_to_image on one axis: int((c - offset) / scale_factor).
canvas_to_image(c, off, sf) == Trunc((c * Q - off) * sf[2], Q * sf[1])

\* image_to_canvas on one axis: int(v * scale_factor + offset), v in 1/Q.
image_to_canvas(v, off, sf) == Trunc(v * sf[1] + off * sf[2], Q * sf[2])

\* A canvas distance divided by scale_factor, in 1/Q.
ImageDelta(d, sf) == (d * sf[2] * Q) \div sf[1]

\* BoundingBox.contains_point for an image point in whole pixels.
contains_point(box, x, y) ==
    /\ box.x <= x * Q /\ x * Q <= box.x + box.width
    /\ box.y <= y * Q /\ y * Q <= box.y + box.height

\* BoundingBox.get_resize_handle, all arguments in one unit.
get_resize_handle(bx, by, bw, bh, x, y, hs) ==
    IF Abs(x - bx) <= hs /\ Abs(y - by) <= hs THEN "nw"
    ELSE IF Abs(x - (bx + bw)) <= hs /\ Abs(y - by) <= hs THEN "ne"
    ELSE IF Abs(x - bx) <= hs /\ Abs(y - (by + bh)) <= hs THEN "sw"
    ELSE IF Abs(x - (bx + bw)) <= hs /\ Abs(y - (by + bh)) <= hs THEN "se"
    ELSE IF Abs(x - bx) <= hs /\ by <= y /\ y <= by + bh THEN "w"
    ELSE IF Abs(x - (bx + bw)) <= hs /\ by <= y /\ y <= by + bh THEN "e"
    ELSE IF Abs(y - by) <= hs /\ bx <= x /\ x <= bx + bw THEN "n"
    ELSE IF Abs(y - (by + bh)) <= hs /\ bx <= x /\ x <= bx + bw THEN "s"
    ELSE "none"

\* The handle of box under canvas point (x, y): a temporary box in canvas
\* coordinates (corner through image_to_canvas, size times scale_factor)
\* is asked for its handle; every length is taken in 1/(Q * denominator).
HandleAt(box, x, y, off, sf) ==
    LET u == Q * sf[2]
    IN  get_resize_handle(image_to_canvas(box.x, off[1], sf) * u,
                          image_to_canvas(box.y, off[2], sf) * u,
                          box.width * sf[1], box.height * sf[1],
                          x * u, y * u, HandleSize * u)

\* The first box of the list that contains the image point, 0 when none.
BoxAt(bs, x, y) ==
    LET hit == {i \in 1..Len(bs) : contains_point(bs[i], x, y)}
    IN  IF hit = {} THEN 0 ELSE CHOOSE i \in hit : \A j \in hit : i <= j

\* The class id of a new box: the first configured id that no box uses,
\* the first configured id when all are used.
FirstUnusedClass(bs) ==
    LET used == {bs[i].class_id : i \in 1..Len(bs)}
        free == {k \in 1..Len(ClassIds) : ClassIds[k] \notin used}
    IN  IF free = {} THEN ClassIds[1]
        ELSE ClassIds[CHOOSE k \in free : \A j \in free : k <= j]

\* The box list with box i deselected (i = 0: unchanged).
Deselect(bs, i) == IF i = 0 THEN bs ELSE [bs EXCEPT ![i].selected = FALSE]

\* The resize of on_motion and update_box_size before the clamp: handle h
\* applied to the box's start geometry st with image-space delta (dx, dy).
ResizeBy(box, st, h, dx, dy) ==
    CASE h = "nw" -> [box EXCEPT !.x = st[1] + dx, !.y = st[2] + dy,
                                 !.width = st[3] - dx, !.height = st[4] - dy]
      [] h = "ne" -> [box EXCEPT !.y = st[2] + dy,
                                 !.width = st[3] + dx, !.height = st[4] - dy]
      [] h = "sw" -> [box EXCEPT !.x = st[1] + dx,
                                 !.width = st[3] - dx, !.height = st[4] + dy]
      [] h = "se" -> [box EXCEPT !.width = st[3] + dx, !.height = st[4] + dy]
      [] h = "n" -> [box EXCEPT !.y = st[2] + dy, !.height = st[4] - dy]
      [] h = "s" -> [box EXCEPT !.height = st[4] + dy]
      [] h = "w" -> [box EXCEPT !.x = st[1] + dx, !.width = st[3] - dx]
      [] h = "e" -> [box EXCEPT !.width = st[3] + dx]
      [] OTHER -> box

\* if width < 10: width = 10, and the same for height.
ClampSize(box) ==
    [box EXCEPT !.width = IF @ < MinSize * Q THEN MinSize * Q ELSE @,
                !.height = IF @ < MinSize * Q THEN MinSize * Q ELSE @]

\* Pointer positions on one axis, and the box lists a DAT file may load
\* (the file is not validated: a box of any size can come from it).
Pointer == {0, 10, 12, 35}
Points == {<<0, 0>>, <<10, 10>>, <<12, 12>>, <<35, 35>>, <<12, 35>>}
PointerY(x) == {y \in Pointer : <<x, y>> \in Points}

LoadedBoxLists == {<<>>, <<GBox(20, 20, 30, 30, 1)>>, <<GBox(0, 0, 5, 5, 2)>>,
                   <<GBox(20, 20, 30, 30, 1), GBox(0, 0, 5, 5, 2)>>}

Called(op, idx, ext) == [op |-> op, idx |-> idx, ext |-> ext]

\* The number of events and calls delivered in one run is bounded.
MaxEvents == 3

\* One event or call delivered to an implementation in S.
Event(S) ==
    /\ impl \in S
    /\ g_events < MaxEvents
    /\ g_events' = g_events + 1

\* The object after __init__ and, for the canvas, load_image / set_boxes.
GestInit ==
    /\ impl \in {"ImageCanvas", "CanvasState", "LabelManager"}
    /\ pixbuf \in BOOLEAN
    /\ pixbuf = (impl = "ImageCanvas")
    /\ boxes \in LoadedBoxLists
    /\ selected_box = 0
    /\ scale_factor \in Scales
    /\ offset = <<0, 0>>
    /\ panning = FALSE /\ dragging = FALSE
    /\ resizing = FALSE /\ creating_box = FALSE
    /\ resize_handle = "none"
    /\ pan_start = <<0, 0>>
    /\ drag_start = <<0, 0>>
    /\ box_start = <<0, 0, 0, 0>>
    /\ g_last = Called("init", 0, <<0, 0>>)
    /\ g_events = 0

GestIdle ==
    /\ impl = "none"
    /\ pixbuf = FALSE
    /\ boxes = <<>>
    /\ selected_box = 0
    /\ scale_factor = <<1, 1>>
    /\ offset = <<0, 0>>
    /\ panning = FALSE /\ dragging = FALSE
    /\ resizing = FALSE /\ creating_box = FALSE
    /\ resize_handle = "none"
    /\ pan_start = <<0, 0>>
    /\ drag_start = <<0, 0>>
    /\ box_start = <<0, 0, 0, 0>>
    /\ g_last = Called("init", 0, <<0, 0>>)
    /\ g_events = 0

\* ImageCanvas.on_click_pressed with the middle button: panning starts.
PressMiddle ==
    /\ Event({"ImageCanvas"}) /\ pixbuf
    /\ \E x \in Pointer : \E y \in PointerY(x) :
           /\ panning' = TRUE
           /\ pan_start' = <<x, y>>
    /\ g_last' = Called("pressed", 0, <<0, 0>>)
    /\ UNCHANGED <<impl, pixbuf, boxes, selected_box, scale_factor, offset,
                   dragging, resizing, creating_box, resize_handle,
                   drag_start, box_start>>
    /\ UNCHANGED notGest

\* A faulty on_click_pressed that looks for a box under the pointer before
\* it looks for a handle of the selected box.
PressPrimaryBoxFirst ==
    /\ Event({"ImageCanvas"}) /\ pixbuf
    /\ \E x \in Pointer : \E y \in PointerY(x) :
        LET img_x == canvas_to_image(x, offset[1], scale_factor)
            img_y == canvas_to_image(y, offset[2], scale_factor)
            handle == IF selected_box = 0 THEN "none"
                      ELSE HandleAt(boxes[selected_box], x, y, offset,
                                    scale_factor)
            clicked == BoxAt(boxes, img_x, img_y)
        IN  IF clicked # 0
            THEN /\ boxes' = [Deselect(boxes, selected_box)
                                 EXCEPT ![clicked].selected = TRUE]
                 /\ selected_box' = clicked
                 /\ dragging' = TRUE
                 /\ drag_start' = <<x, y>>
                 /\ box_start' = [box_start EXCEPT ![1] = boxes[clicked].x,
                                                   ![2] = boxes[clicked].y]
                 /\ UNCHANGED <<resizing, resize_handle, creating_box>>
            ELSE IF handle # "none"
            THEN /\ resizing' = TRUE
                 /\ resize_handle' = handle
                 /\ drag_start' = <<x, y>>
                 /\ box_start' = <<boxes[selected_box].x,
                                   boxes[selected_box].y,
                                   boxes[selected_box].width,
                                   boxes[selected_box].height>>
                 /\ UNCHANGED <<boxes, selected_box, dragging, creating_box>>
            ELSE /\ creating_box' = TRUE
                 /\ drag_start' = <<x, y>>
                 /\ boxes' = Deselect(boxes, selected_box)
                 /\ selected_box' = 0
                 /\ UNCHANGED <<resizing, resize_handle, dragging, box_start>>
    /\ g_last' = Called("pressed", 0, <<0, 0>>)
    /\ UNCHANGED <<impl, pixbuf, scale_factor, offset, panning, pan_start>>
    /\ UNCHANGED notGest

\* ImageCanvas.on_click_pressed with another button: a handle of the
\* selected box starts a resize; else a box under the pointer is selected
\* and dragged; else a box creation starts and the selection is dropped.
PressPrimary ==
    /\ Event({"ImageCanvas"}) /\ pixbuf
    /\ \E x \in Pointer : \E y \in PointerY(x) :
        LET img_x == canvas_to_image(x, offset[1], scale_factor)
            img_y == canvas_to_image(y, offset[2], scale_factor)
            handle == IF selected_box = 0 THEN "none"
                      ELSE HandleAt(boxes[selected_box], x, y, offset,
                                    scale_factor)
            clicked == BoxAt(boxes, img_x, img_y)
        IN  IF handle # "none"
            THEN /\ resizing' = TRUE
                 /\ resize_handle' = handle
                 /\ drag_start' = <<x, y>>
                 /\ box_start' = <<boxes[selected_box].x,
                                   boxes[selected_box].y,
                                   boxes[selected_box].width,
                                   boxes[selected_box].height>>
                 /\ UNCHANGED <<boxes, selected_box, dragging, creating_box>>
            ELSE IF clicked # 0
            THEN /\ boxes' = [Deselect(boxes, selected_box)
                                 EXCEPT ![clicked].selected = TRUE]
                 /\ selected_box' = clicked
                 /\ dragging' = TRUE
                 /\ drag_start' = <<x, y>>
                 /\ box_start' = [box_start EXCEPT ![1] = boxes[clicked].x,
                                                   ![2] = boxes[clicked].y]
                 /\ UNCHANGED <<resizing, resize_handle, creating_box>>
            ELSE /\ creating_box' = TRUE
                 /\ drag_start' = <<x, y>>
                 /\ boxes' = Deselect(boxes, selected_box)
                 /\ selected_box' = 0
                 /\ UNCHANGED <<resizing, resize_handle, dragging, box_start>>
    /\ g_last' = Called("pressed", 0, <<0, 0>>)
    /\ UNCHANGED <<impl, pixbuf, scale_factor, offset, panning, pan_start>>
    /\ UNCHANGED notGest

\* The box a creation from canvas point a to canvas point b gives, and
\* its image-space extent.
Extent(a, b, off, sf) ==
    <<Abs(canvas_to_image(b[1], off[1], sf) - canvas_to_image(a[1], off[1], sf)),
      Abs(canvas_to_image(b[2], off[2], sf) - canvas_to_image(a[2], off[2], sf))>>

CreatedBox(a, b, off, sf, bs) ==
    [GBox(Min(canvas_to_image(a[1], off[1], sf), canvas_to_image(b[1], off[1], sf)),
          Min(canvas_to_image(a[2], off[2], sf), canvas_to_image(b[2], off[2], sf)),
          Extent(a, b, off, sf)[1], Extent(a, b, off, sf)[2],
          FirstUnusedClass(bs))
        EXCEPT !.selected = TRUE]

\* The test of ImageCanvas.on_click_released on the extent of a creation.
CanvasAccepts(ext) == ext[1] > CreateThreshold /\ ext[2] > CreateThreshold

\* A faulty on_click_released that leaves a resize in progress.
ReleasedKeepsResize ==
    /\ Event({"ImageCanvas"})
    /\ \E x \in Pointer : \E y \in PointerY(x) :
        LET ext == Extent(drag_start, <<x, y>>, offset, scale_factor)
        IN  IF creating_box /\ CanvasAccepts(ext)
            THEN /\ Len(boxes) < MaxGBoxes
                 /\ boxes' = Append(Deselect(boxes, selected_box),
                                    CreatedBox(drag_start, <<x, y>>, offset,
                                               scale_factor, boxes))
                 /\ selected_box' = Len(boxes) + 1
                 /\ g_last' = Called("release_create", Len(boxes) + 1, ext)
            ELSE /\ UNCHANGED <<boxes, selected_box>>
                 /\ g_last' = IF creating_box /\ ~CanvasAccepts(ext)
                              THEN Called("release_create", 0, ext)
                              ELSE Called("released", 0, <<0, 0>>)
    /\ panning' = FALSE
    /\ creating_box' = FALSE
    /\ dragging' = FALSE
    /\ UNCHANGED <<resizing, resize_handle>>
    /\ UNCHANGED <<impl, pixbuf, scale_factor, offset, pan_start, drag_start,
                   box_start>>
    /\ UNCHANGED notGest

\* ImageCanvas.on_click_released: a creation in progress appends its box
\* when the extent passes the test; every gesture flag but none is left.
Released ==
    /\ Event({"ImageCanvas"})
    /\ \E x \in Pointer : \E y \in PointerY(x) :
        LET ext == Extent(drag_start, <<x, y>>, offset, scale_factor)
        IN  IF creating_box /\ CanvasAccepts(ext)
            THEN /\ Len(boxes) < MaxGBoxes
                 /\ boxes' = Append(Deselect(boxes, selected_box),
                                    CreatedBox(drag_start, <<x, y>>, offset,
                                               scale_factor, boxes))
                 /\ selected_box' = Len(boxes) + 1
                 /\ g_last' = Called("release_create", Len(boxes) + 1, ext)
            ELSE /\ UNCHANGED <<boxes, selected_box>>
                 /\ g_last' = IF creating_box /\ ~CanvasAccepts(ext)
                              THEN Called("release_create", 0, ext)
                              ELSE Called("released", 0, <<0, 0>>)
    /\ panning' = FALSE
    /\ creating_box' = FALSE
    /\ dragging' = FALSE
    /\ resizing' = FALSE
    /\ resize_handle' = "none"
    /\ UNCHANGED <<impl, pixbuf, scale_factor, offset, pan_start, drag_start,
                   box_start>>
    /\ UNCHANGED notGest

\* ImageCanvas.on_motion while panning: the offset follows the pointer.
MotionPan ==
    /\ Event({"ImageCanvas"})
    /\ panning
    /\ \E x \in Pointer : \E y \in PointerY(x) :
        LET nx == offset[1] + (x - pan_start[1]) * Q
            ny == offset[2] + (y - pan_start[2]) * Q
        IN  /\ Abs(nx) <= MaxPan * Q /\ Abs(ny) <= MaxPan * Q
            /\ offset' = <<nx, ny>>
            /\ pan_start' = <<x, y>>
    /\ g_last' = Called("motion_pan", 0, <<0, 0>>)
    /\ UNCHANGED <<impl, pixbuf, boxes, selected_box, scale_factor, panning,
                   dragging, resizing, creating_box, resize_handle,
                   drag_start, box_start>>
    /\ UNCHANGED notGest

\* ImageCanvas.on_motion while dragging: the selected box follows the
\* pointer, its corner kept at or above 0.
MotionDrag ==
    /\ Event({"ImageCanvas"})
    /\ ~panning /\ dragging /\ selected_box # 0
    /\ \E x \in Pointer : \E y \in PointerY(x) :
        LET dx == ImageDelta(x - drag_start[1], scale_factor)
            dy == ImageDelta(y - drag_start[2], scale_factor)
        IN  boxes' = [boxes EXCEPT
                         ![selected_box].x = Max(0, box_start[1] + dx),
                         ![selected_box].y = Max(0, box_start[2] + dy)]
    /\ g_last' = Called("motion_drag", selected_box, <<0, 0>>)
    /\ UNCHANGED <<impl, pixbuf, selected_box, scale_factor, offset, panning,
                   dragging, resizing, creating_box, resize_handle,
                   pan_start, drag_start, box_start>>
    /\ UNCHANGED notGest

\* ImageCanvas.on_motion while resizing: the handle's formula, then the
\* clamp of width and height.
MotionResize ==
    /\ Event({"ImageCanvas"})
    /\ ~panning /\ ~(dragging /\ selected_box # 0)
    /\ resizing /\ selected_box # 0
    /\ \E x \in Pointer : \E y \in PointerY(x) :
        LET dx == ImageDelta(x - drag_start[1], scale_factor)
            dy == ImageDelta(y - drag_start[2], scale_factor)
        IN  boxes' = [boxes EXCEPT ![selected_box] =
                         ClampSize(ResizeBy(@, box_start, resize_handle,
                                            dx, dy))]
    /\ g_last' = Called("motion_resize", selected_box, <<0, 0>>)
    /\ UNCHANGED <<impl, pixbuf, selected_box, scale_factor, offset, panning,
                   dragging, resizing, creating_box, resize_handle,
                   pan_start, drag_start, box_start>>
    /\ UNCHANGED notGest

Remove(bs, i) == SubSeq(bs, 1, i - 1) \o SubSeq(bs, i + 1, Len(bs))

gestFlags == <<panning, dragging, resizing, creating_box, resize_handle,
               pan_start, drag_start, box_start>>

\* ImageCanvas.set_boxes with the boxes of a DAT file just loaded: the
\* list is replaced and nothing is selected.
canvas_set_boxes ==
    /\ Event({"ImageCanvas"})
    /\ \E loaded \in LoadedBoxLists : boxes' = loaded
    /\ selected_box' = 0
    /\ g_last' = Called("set_boxes", 0, <<0, 0>>)
    /\ UNCHANGED <<impl, pixbuf, scale_factor, offset>>
    /\ UNCHANGED gestFlags
    /\ UNCHANGED notGest

\* A faulty Delete that removes the first box of the list, not the
\* selected one.
KeyDeleteFirst ==
    /\ Event({"ImageCanvas"})
    /\ selected_box # 0
    /\ boxes' = Deselect(Remove(boxes, 1), selected_box - 1)
    /\ selected_box' = 0
    /\ g_last' = Called("key_delete", 0, <<0, 0>>)
    /\ UNCHANGED <<impl, pixbuf, scale_factor, offset>>
    /\ UNCHANGED gestFlags
    /\ UNCHANGED notGest

\* ImageCanvas.on_key_pressed, Delete: the selected box leaves the list.
KeyDelete ==
    /\ Event({"ImageCanvas"})
    /\ selected_box # 0
    /\ boxes' = Remove(boxes, selected_box)
    /\ selected_box' = 0
    /\ g_last' = Called("key_delete", 0, <<0, 0>>)
    /\ UNCHANGED <<impl, pixbuf, scale_factor, offset>>
    /\ UNCHANGED gestFlags
    /\ UNCHANGED notGest

\* ImageCanvas.on_key_pressed, Tab: the next box of the list is selected.
KeyTab ==
    /\ Event({"ImageCanvas"})
    /\ boxes # <<>>
    /\ LET next_idx == (selected_box % Len(boxes)) + 1
       IN  /\ boxes' = [Deselect(boxes, selected_box)
                           EXCEPT ![next_idx].selected = TRUE]
           /\ selected_box' = next_idx
    /\ g_last' = Called("key_tab", 0, <<0, 0>>)
    /\ UNCHANGED <<impl, pixbuf, scale_factor, offset>>
    /\ UNCHANGED gestFlags
    /\ UNCHANGED notGest

\* ImageCanvas.on_key_pressed, Escape: the selection is dropped.
KeyEscape ==
    /\ Event({"ImageCanvas"})
    /\ selected_box # 0
    /\ boxes' = Deselect(boxes, selected_box)
    /\ selected_box' = 0
    /\ g_last' = Called("key_escape", 0, <<0, 0>>)
    /\ UNCHANGED <<impl, pixbuf, scale_factor, offset>>
    /\ UNCHANGED gestFlags
    /\ UNCHANGED notGest

Adjustments == {"move_up", "move_down", "move_left", "move_right",
                "resize_width_decrease", "resize_width_increase",
                "resize_height_decrease", "resize_height_increase"}

\* The box after one label_adjustment action with the given step.
Adjusted(box, action, step) ==
    CASE action = "move_up" -> [box EXCEPT !.y = Max(0, @ - step * Q)]
      [] action = "move_down" -> [box EXCEPT !.y = @ + step * Q]
      [] action = "move_left" -> [box EXCEPT !.x = Max(0, @ - step * Q)]
      [] action = "move_right" -> [box EXCEPT !.x = @ + step * Q]
      [] action = "resize_width_decrease" ->
             [box EXCEPT !.width = Max(MinSize * Q, @ - step * Q)]
      [] action = "resize_width_increase" ->
             [box EXCEPT !.width = @ + step * Q]
      [] action = "resize_height_decrease" ->
             [box EXCEPT !.height = Max(MinSize * Q, @ - step * Q)]
      [] action = "resize_height_increase" ->
             [box EXCEPT !.height = @ + step * Q]

InBounds(box) ==
    /\ box.x <= MaxCoord * Q /\ box.y <= MaxCoord * Q
    /\ box.width <= MaxCoord * Q /\ box.height <= MaxCoord * Q

\* EventHandlerMixin.handle_label_adjustment on the canvas's selected box:
\* a step of 1 with Shift held, of 5 without.
LabelAdjustment ==
    /\ Event({"ImageCanvas"})
    /\ selected_box # 0
    /\ \E action \in Adjustments, shift_pressed \in BOOLEAN :
        LET step == IF shift_pressed THEN FineStep ELSE Step
            new == Adjusted(boxes[selected_box], action, step)
        IN  /\ InBounds(new)
            /\ boxes' = [boxes EXCEPT ![selected_box] = new]
            /\ g_last' = Called(action, selected_box, <<0, 0>>)
    /\ UNCHANGED <<impl, pixbuf, selected_box, scale_factor, offset>>
    /\ UNCHANGED gestFlags
    /\ UNCHANGED notGest

\* Pointer positions handed to the CanvasState and manager operations.
CsPoints == {<<0, 0>>, <<10, 12>>}
CsEnds == CsPoints \cup {<<10, 10>>, <<35, 35>>}
CsHandles == {"nw", "se", "e"}

\* CanvasState.start_pan
start_pan ==
    /\ Event({"CanvasState"})
    /\ \E p \in CsPoints : pan_start' = p
    /\ panning' = TRUE
    /\ g_last' = Called("start_pan", 0, <<0, 0>>)
    /\ UNCHANGED <<impl, pixbuf, boxes, selected_box, scale_factor, offset,
                   dragging, resizing, creating_box, resize_handle,
                   drag_start, box_start>>
    /\ UNCHANGED notGest

\* CanvasState.update_pan
update_pan ==
    /\ Event({"CanvasState"})
    /\ panning
    /\ \E p \in CsPoints :
        LET nx == offset[1] + (p[1] - pan_start[1]) * Q
            ny == offset[2] + (p[2] - pan_start[2]) * Q
        IN  /\ Abs(nx) <= MaxPan * Q /\ Abs(ny) <= MaxPan * Q
            /\ offset' = <<nx, ny>>
            /\ pan_start' = p
    /\ g_last' = Called("update_pan", 0, <<0, 0>>)
    /\ UNCHANGED <<impl, pixbuf, boxes, selected_box, scale_factor, panning,
                   dragging, resizing, creating_box, resize_handle,
                   drag_start, box_start>>
    /\ UNCHANGED notGest

\* CanvasState.end_pan
end_pan ==
    /\ Event({"CanvasState"})
    /\ panning' = FALSE
    /\ g_last' = Called("end_pan", 0, <<0, 0>>)
    /\ UNCHANGED <<impl, pixbuf, boxes, selected_box, scale_factor, offset,
                   dragging, resizing, creating_box, resize_handle,
                   pan_start, drag_start, box_start>>
    /\ UNCHANGED notGest

\* CanvasState.start_drag
start_drag ==
    /\ Event({"CanvasState"})
    /\ \E p \in CsPoints : drag_start' = p
    /\ dragging' = TRUE
    /\ g_last' = Called("start_drag", 0, <<0, 0>>)
    /\ UNCHANGED <<impl, pixbuf, boxes, selected_box, scale_factor, offset,
                   panning, resizing, creating_box, resize_handle,
                   pan_start, box_start>>
    /\ UNCHANGED notGest

\* CanvasState.start_resize
start_resize ==
    /\ Event({"CanvasState"})
    /\ \E p \in CsPoints, handle \in CsHandles, i \in 1..Len(boxes) :
           /\ drag_start' = p
           /\ resize_handle' = handle
           /\ box_start' = <<boxes[i].x, boxes[i].y, boxes[i].width,
                             boxes[i].height>>
    /\ resizing' = TRUE
    /\ g_last' = Called("start_resize", 0, <<0, 0>>)
    /\ UNCHANGED <<impl, pixbuf, boxes, selected_box, scale_factor, offset,
                   panning, dragging, creating_box, pan_start>>
    /\ UNCHANGED notGest

\* CanvasState.start_box_creation
start_box_creation ==
    /\ Event({"CanvasState"})
    /\ \E p \in CsPoints : drag_start' = p
    /\ creating_box' = TRUE
    /\ g_last' = Called("start_box_creation", 0, <<0, 0>>)
    /\ UNCHANGED <<impl, pixbuf, boxes, selected_box, scale_factor, offset,
                   panning, dragging, resizing, resize_handle, pan_start,
                   box_start>>
    /\ UNCHANGED notGest

\* CanvasState.end_interactions
end_interactions ==
    /\ Event({"CanvasState"})
    /\ dragging' = FALSE
    /\ resizing' = FALSE
    /\ panning' = FALSE
    /\ creating_box' = FALSE
    /\ resize_handle' = "none"
    /\ g_last' = Called("end_interactions", 0, <<0, 0>>)
    /\ UNCHANGED <<impl, pixbuf, boxes, selected_box, scale_factor, offset,
                   pan_start, drag_start, box_start>>
    /\ UNCHANGED notGest

\* BoxInteractionManager.select_box and LabelManager.select_box, with a
\* box of the list or with None.
select_box ==
    /\ Event({"CanvasState", "LabelManager"})
    /\ \E i \in 0..Len(boxes) :
           /\ i # selected_box
           /\ boxes' = IF i = 0 THEN Deselect(boxes, selected_box)
                       ELSE [Deselect(boxes, selected_box)
                                EXCEPT ![i].selected = TRUE]
           /\ selected_box' = i
    /\ g_last' = Called("select_box", 0, <<0, 0>>)
    /\ UNCHANGED <<impl, pixbuf, scale_factor, offset>>
    /\ UNCHANGED gestFlags
    /\ UNCHANGED notGest

\* BoxInteractionManager.delete_selected_box
delete_selected_box ==
    /\ Event({"CanvasState"})
    /\ selected_box # 0
    /\ boxes' = Remove(boxes, selected_box)
    /\ selected_box' = 0
    /\ g_last' = Called("delete_selected_box", 0, <<0, 0>>)
    /\ UNCHANGED <<impl, pixbuf, scale_factor, offset>>
    /\ UNCHANGED gestFlags
    /\ UNCHANGED notGest

\* The test of BoxInteractionManager.create_box on the extent.
ManagerAccepts(ext) ==
    ~(ext[1] < CreateThreshold \/ ext[2] < CreateThreshold)

\* BoxInteractionManager.create_box(start_x, start_y, end_x, end_y): None
\* below the minimum size; else the box is appended and selected.
bim_create_box ==
    /\ Event({"CanvasState"})
    /\ \E start \in CsPoints, end \in CsEnds :
        LET ext == Extent(start, end, offset, scale_factor)
        IN  IF ManagerAccepts(ext)
            THEN /\ Len(boxes) < MaxGBoxes
                 /\ boxes' = Append(Deselect(boxes, selected_box),
                                    CreatedBox(start, end, offset,
                                               scale_factor, boxes))
                 /\ selected_box' = Len(boxes) + 1
                 /\ g_last' = Called("create_box", Len(boxes) + 1, ext)
            ELSE /\ UNCHANGED <<boxes, selected_box>>
                 /\ g_last' = Called("create_box", 0, ext)
    /\ UNCHANGED <<impl, pixbuf, scale_factor, offset>>
    /\ UNCHANGED gestFlags
    /\ UNCHANGED notGest

Deltas == {<<-10, -10>>, <<12, 12>>, <<-10, 12>>}

\* BoxInteractionManager.update_box_position(box, canvas_dx, canvas_dy)
update_box_position ==
    /\ Event({"CanvasState"})
    /\ \E i \in 1..Len(boxes), d \in Deltas :
        LET img_dx == ImageDelta(d[1], scale_factor)
            img_dy == ImageDelta(d[2], scale_factor)
        IN  /\ boxes' = [boxes EXCEPT
                            ![i].x = Max(0, box_start[1] + img_dx),
                            ![i].y = Max(0, box_start[2] + img_dy)]
            /\ g_last' = Called("update_box_position", i, <<0, 0>>)
    /\ UNCHANGED <<impl, pixbuf, selected_box, scale_factor, offset>>
    /\ UNCHANGED gestFlags
    /\ UNCHANGED notGest

\* BoxInteractionManager.update_box_size(box, canvas_dx, canvas_dy, handle)
update_box_size ==
    /\ Event({"CanvasState"})
    /\ \E i \in 1..Len(boxes), d \in Deltas, handle \in CsHandles :
        LET img_dx == ImageDelta(d[1], scale_factor)
            img_dy == ImageDelta(d[2], scale_factor)
        IN  /\ boxes' = [boxes EXCEPT ![i] =
                            ClampSize(ResizeBy(@, box_start, handle,
                                               img_dx, img_dy))]
            /\ g_last' = Called("update_box_size", i, <<0, 0>>)
    /\ UNCHANGED <<impl, pixbuf, selected_box, scale_factor, offset>>
    /\ UNCHANGED gestFlags
    /\ UNCHANGED notGest

Sizes == {5, 30}

\* LabelManager.create_box(x, y, width, height): the box is appended with
\* the geometry it is given, and selected.
lm_create_box ==
    /\ Event({"LabelManager"})
    /\ Len(boxes) < MaxGBoxes
    /\ \E x \in Pointer : \E y \in PointerY(x), width \in Sizes, height \in Sizes :
           /\ boxes' = Append(Deselect(boxes, selected_box),
                              [GBox(x, y, width, height,
                                    FirstUnusedClass(boxes))
                                  EXCEPT !.selected = TRUE])
           /\ g_last' = Called("create_box", Len(boxes) + 1,
                               <<width, height>>)
    /\ selected_box' = Len(boxes) + 1
    /\ UNCHANGED <<impl, pixbuf, scale_factor, offset>>
    /\ UNCHANGED gestFlags
    /\ UNCHANGED notGest

---------------------------------------------------------------------------
(* The DAT codec as a state machine: a run starts from a file or from a    *)
(* list of boxes and applies parse_dat_file and save_dat_file to it.       *)

MaxLines == 3
MaxBoxes == 2
MaxDatOps == 3

\* Lines of a DAT file: well-formed ones and one of each malformed kind.
LineSamples == {
    <<"1", SP, "1", "0", SP, "2", "0", SP, "3", "0", SP, "4", "0", SP, HASH, "A">>,
    <<"2", SP, "1", ".", "5", SP, "7", SP, "1", "2", SP, "1", "1", SP, HASH, "A", HASH, "B">>,
    <<"3", TAB, "5", TAB, "6", TAB, "1", "5", TAB, "2", "5">>,
    <<"1", SP, "1", "0", SP, "2", "0", SP, "3", "0", SP, HASH, "A">>,
    <<"1", SP, "1", "0", SP, "A", SP, "3", "0", SP, "4", "0", SP, HASH, "A">>,
    <<"A", SP, "1", "0", SP, "2", "0", SP, "3", "0", SP, "4", "0", SP, HASH, "A">>,
    <<"A", "B">>,
    <<>> }

\* OCR texts: plain, empty, with inner and outer blanks, with the format's
\* own separator, with a line break, and with characters outside ASCII.
TextSamples == {
    <<>>, <<"A">>, <<"A", SP, "B">>, <<"A", SP>>, <<SP, "A">>, <<"A", HASH, "B">>,
    <<"A", LF, "B">>, <<"A", "'", "B">>, <<"A", "u2019", "B">>, <<"ufb01", "u00c9">> }

BoxSamples == {BoundingBox(x, 7, 10, 25, c, t) :
                   x \in {-3, 12}, c \in {1, 2}, t \in TextSamples}

DatFiles == {JoinCRLF(ls) : ls \in SeqUpTo(LineSamples, MaxLines)}

DatInit ==
    /\ dat_op = <<>>
    /\ \/ /\ \E text \in DatFiles :
               /\ dat_in = [kind |-> "file", text |-> text]
               /\ dat_file = text
          /\ dat_boxes = <<>>
       \/ /\ \E bs \in SeqUpTo(BoxSamples, MaxBoxes) :
               /\ dat_in = [kind |-> "boxes", boxes |-> bs]
               /\ dat_boxes = bs
          /\ dat_file = <<>>

\* boxes = DATParser.parse_dat_file(path)
DatParse ==
    /\ Len(dat_op) < MaxDatOps
    /\ dat_boxes' = parse_dat_file(dat_file)
    /\ dat_op' = Append(dat_op, "parse")
    /\ UNCHANGED <<dat_file, dat_in>>
    /\ UNCHANGED notDat

\* DATParser.save_dat_file(path, boxes), the write succeeding
DatSave ==
    /\ Len(dat_op) < MaxDatOps
    /\ dat_file' = save_dat_content(dat_boxes)
    /\ dat_op' = Append(dat_op, "save")
    /\ UNCHANGED <<dat_boxes, dat_in>>
    /\ UNCHANGED notDat

DatIdle ==
    /\ dat_file = <<>>
    /\ dat_boxes = <<>>
    /\ dat_in = [kind |-> "none"]
    /\ dat_op = <<>>

InitDat == DatInit /\ SaveIdle /\ GestIdle /\ RestIdle

NextDat == DatParse \/ DatSave

SpecDat == InitDat /\ [][NextDat]_vars

---------------------------------------------------------------------------
(* Claims about the DAT codec                                              *)

\* The fields of a box that the DAT format carries.
DatFields(b) == <<b.class_id, b.x, b.y, b.width, b.height, b.ocr_text>>

Count(s, v) == Cardinality({i \in 1..Len(s) : DatFields(s[i]) = v})

SameBoxes(s, t) ==
    /\ Len(s) = Len(t)
    /\ \A i \in 1..Len(s) : Count(s, DatFields(s[i])) = Count(t, DatFields(s[i]))

\* A line the claim calls malformed: it is not blank and yields no box.
Malformed(raw) == Strip(raw) # <<>> /\ ParseLine(raw).kind # "box"

WellFormedLines(text) ==
    SelectSeq(FileLines(text), LAMBDA l : ~Malformed(l))

\* C2: parse_dat_file skips a malformed line and goes on: the boxes parsed
\* from a file are the boxes parsed from the same file without its
\* malformed lines.
C2_SkipMalformed ==
    (dat_in.kind = "file" /\ dat_op = <<"parse">>)
        => dat_boxes = parse_dat_file(JoinCRLF(WellFormedLines(dat_in.text)))

AsciiOnly(bs) ==
    \A i \in 1..Len(bs) : \A k \in 1..Len(bs[i].ocr_text) :
        bs[i].ocr_text[k] \notin NonAscii

\* C3: for bs with ASCII-only text, parsing the written file gives back
\* the same bs (class_id, x, y, width, height, ocr_text) as a multiset.
C3_RoundTrip ==
    (dat_in.kind = "boxes" /\ dat_op = <<"save", "parse">>
        /\ AsciiOnly(dat_in.boxes))
        => SameBoxes(dat_boxes, dat_in.boxes)

\* C11: for any list of boxes, saving it, parsing the file written and
\* saving the parsed boxes writes the same bytes as the first save.
C11_ResaveIdentical ==
    (dat_in.kind = "boxes" /\ dat_op = <<"save", "parse", "save">>)
        => dat_file = save_dat_content(dat_in.boxes)

---------------------------------------------------------------------------
(* The save path as a specification, and the claim about it               *)

InitSave == SaveInit /\ DatIdle /\ GestIdle /\ RestIdle

NextSave ==
    \/ SvSelect
    \/ SvTextChanged
    \/ SvDeleteClicked
    \/ SvSaveDatFile
    \/ SvAutoSaveCurrent
    \/ SvDelayedAutoSave

SpecSave == InitSave /\ [][NextSave]_vars

\* C1: when the write of the DAT file fails, the save reports failure and
\* the window's unsaved_changes, true before the save, stays true.
C1_FailedSaveStaysUnsaved ==
    (sv_last.io # "ok" /\ sv_last.was_unsaved)
        => (sv_last.ret = FALSE /\ win_unsaved)

---------------------------------------------------------------------------
(* The interaction controller as a specification, and the claims about it *)

InitGest == GestInit /\ DatIdle /\ SaveIdle /\ RestIdle

NextGest ==
    \/ PressMiddle
    \/ PressPrimary
    \/ Released
    \/ MotionPan
    \/ MotionDrag
    \/ MotionResize
    \/ KeyDelete
    \/ KeyTab
    \/ KeyEscape
    \/ canvas_set_boxes
    \/ LabelAdjustment
    \/ start_pan
    \/ update_pan
    \/ end_pan
    \/ start_drag
    \/ start_resize
    \/ start_box_creation
    \/ end_interactions
    \/ select_box
    \/ delete_selected_box
    \/ bim_create_box
    \/ update_box_position
    \/ update_box_size
    \/ lm_create_box

SpecGest == InitGest /\ [][NextGest]_vars

\* How many gesture flags are set.
FlagCount ==
    (IF panning THEN 1 ELSE 0) + (IF dragging THEN 1 ELSE 0)
        + (IF resizing THEN 1 ELSE 0) + (IF creating_box THEN 1 ELSE 0)

\* C4: in every reachable state of the interaction controller at most one
\* of panning, dragging, resizing, creating_box is true; a press or a
\* start_* call that begins a gesture ends the one in progress first.
C4_AtMostOneGesture == FlagCount <= 1

\* The calls that create a box or change the size of one.
CreateOps == {"release_create", "create_box"}
ResizeOps == {"motion_resize", "update_box_size", "resize_width_decrease",
              "resize_width_increase", "resize_height_decrease",
              "resize_height_increase"}

\* C5: after a create, a mouse resize or a keyboard resize, the box the
\* call produced or resized is at least 10 wide and 10 high.
C5_MinimumSize ==
    (g_last.op \in CreateOps \cup ResizeOps /\ g_last.idx # 0)
        => /\ boxes[g_last.idx].width >= MinSize * Q
           /\ boxes[g_last.idx].height >= MinSize * Q

\* C6: a creation whose image-space extent is at most 10 on an axis
\* leaves the box list as it was; with both extents above 10 exactly one
\* box of that extent is appended and selected.  For the release handler
\* of ImageCanvas and for BoxInteractionManager.create_box alike.
C6_CreateThreshold ==
    [][(g_last'.op \in CreateOps /\ impl \in {"ImageCanvas", "CanvasState"})
          => IF g_last'.ext[1] > 10 /\ g_last'.ext[2] > 10
             THEN /\ Len(boxes') = Len(boxes) + 1
                  /\ selected_box' = Len(boxes')
                  /\ boxes'[Len(boxes')].width = g_last'.ext[1] * Q
                  /\ boxes'[Len(boxes')].height = g_last'.ext[2] * Q
             ELSE boxes' = boxes]_vars

---------------------------------------------------------------------------
(* OCR on the selected box.  The click starts a worker thread with the    *)
(* selected box; the thread hands its text to _ocr_complete, which queues *)
(* update_ui on the main loop; update_ui presents a question dialog; a    *)
(* YES sets the text buffer, whose "changed" handler writes the text to   *)
(* the box selected at that moment.                                        *)

MaxOcrBoxes == 2
MaxOcrJobs == 2

\* What an engine may return: a text, or blanks only.
OcrOutputs == {<<"X">>, <<SP>>}

\* A box's ocr_text; by = 0 unless an OCR run wrote it, then the index of
\* the box that run was started for.
OcrText(t, by) == [ocr_text |-> t, by |-> by]

OcrInit ==
    /\ ocr_box_text \in [1..MaxOcrBoxes -> {OcrText(<<>>, 0), OcrText(<<"A">>, 0)}]
    /\ ocr_selected \in 0..MaxOcrBoxes
    /\ ocr_button = TRUE
    /\ ocr_threads = {}
    /\ ocr_idle = <<>>
    /\ ocr_dialogs = {}
    /\ ocr_jobs = 0

\* on_ocr_text_changed: the buffer's text goes to canvas.selected_box.
on_ocr_text_changed(texts, sel, t, by) ==
    IF sel = 0 THEN texts ELSE [texts EXCEPT ![sel] = OcrText(t, by)]

\* The canvas selects another box or none; on_box_selected puts that box's
\* own text in the buffer.
OcrSelect ==
    /\ \E i \in 0..Len(ocr_box_text) :
           /\ i # ocr_selected
           /\ ocr_selected' = i
    /\ UNCHANGED <<ocr_box_text, ocr_button, ocr_threads, ocr_idle,
                   ocr_dialogs, ocr_jobs>>
    /\ UNCHANGED notOcr

\* The user types in the text view.
OcrTyped ==
    /\ ocr_selected # 0
    /\ ocr_box_text' = on_ocr_text_changed(ocr_box_text, ocr_selected,
                                           <<"T">>, 0)
    /\ UNCHANGED <<ocr_selected, ocr_button, ocr_threads, ocr_idle,
                   ocr_dialogs, ocr_jobs>>
    /\ UNCHANGED notOcr

\* on_ocr_clicked with a box selected: the button goes insensitive and
\* process_ocr starts a thread with the selected box.
OcrClicked ==
    /\ ocr_button
    /\ ocr_selected # 0
    /\ ocr_jobs < MaxOcrJobs
    /\ ocr_button' = FALSE
    /\ ocr_jobs' = ocr_jobs + 1
    /\ ocr_threads' = ocr_threads \cup
                          {[box |-> ocr_selected, job |-> ocr_jobs + 1]}
    /\ UNCHANGED <<ocr_box_text, ocr_selected, ocr_idle, ocr_dialogs>>
    /\ UNCHANGED notOcr

\* A worker thread that writes its text to its box itself; C20 must tell
\* it from the real one.
OcrThreadWritesBox ==
    /\ \E th \in ocr_threads :
           /\ ocr_threads' = ocr_threads \ {th}
           /\ \E t \in OcrOutputs :
                  ocr_box_text' = [ocr_box_text EXCEPT
                                      ![th.box] = OcrText(t, th.box)]
    /\ UNCHANGED <<ocr_selected, ocr_button, ocr_idle, ocr_dialogs, ocr_jobs>>
    /\ UNCHANGED notOcr

\* _run_ocr_thread ends: on_ocr_complete with the text, or on_ocr_error
\* after an exception; either queues its update_ui with GLib.idle_add.
OcrThreadEnds ==
    /\ \E th \in ocr_threads :
           /\ ocr_threads' = ocr_threads \ {th}
           /\ \/ \E t \in OcrOutputs :
                    ocr_idle' = Append(ocr_idle,
                                       [kind |-> "complete", box |-> th.box,
                                        job |-> th.job, text |-> t])
              \/ ocr_idle' = Append(ocr_idle,
                                    [kind |-> "error", box |-> th.box,
                                     job |-> th.job, text |-> <<>>])
    /\ UNCHANGED <<ocr_box_text, ocr_selected, ocr_button, ocr_dialogs,
                   ocr_jobs>>
    /\ UNCHANGED notOcr

\* The main loop runs the next update_ui: the button is sensitive again;
\* a text that is not blank is offered in a dialog.
OcrUpdateUi ==
    /\ ocr_idle # <<>>
    /\ ocr_idle' = Tail(ocr_idle)
    /\ ocr_button' = TRUE
    /\ ocr_dialogs' =
           IF Head(ocr_idle).kind = "complete"
              /\ Strip(Head(ocr_idle).text) # <<>>
           THEN ocr_dialogs \cup {Head(ocr_idle)}
           ELSE ocr_dialogs
    /\ UNCHANGED <<ocr_box_text, ocr_selected, ocr_threads, ocr_jobs>>
    /\ UNCHANGED notOcr

\* on_response of a dialog: YES sets the buffer to the extracted text,
\* which on_ocr_text_changed writes to the selected box; the dialog goes.
OcrDialogResponse ==
    /\ \E d \in ocr_dialogs, yes \in BOOLEAN :
           /\ ocr_dialogs' = ocr_dialogs \ {d}
           /\ ocr_box_text' =
                  IF yes
                  THEN on_ocr_text_changed(ocr_box_text, ocr_selected,
                                           d.text, d.box)
                  ELSE ocr_box_text
    /\ UNCHANGED <<ocr_selected, ocr_button, ocr_threads, ocr_idle, ocr_jobs>>
    /\ UNCHANGED notOcr

InitOcr == OcrInit /\ DatIdle /\ SaveIdle /\ GestIdle /\ XfIdle /\ ZoomIdle
               /\ RotIdle /\ DbIdle /\ ValIdle /\ RegIdle /\ HistIdle
                /\ ClsIdle /\ GeoIdle /\ FitIdle /\ NavIdle /\ RmIdle

NextOcr ==
    \/ OcrSelect
    \/ OcrTyped
    \/ OcrClicked
    \/ OcrThreadEnds
    \/ OcrUpdateUi
    \/ OcrDialogResponse

SpecOcr == InitOcr /\ [][NextOcr]_vars

\* C7: an OCR result is written only to the box the run was started for:
\* no box holds a text that a run started for another box extracted.
C7_OnlyOriginatingBox ==
    \A i \in DOMAIN ocr_box_text : ocr_box_text[i].by \in {0, i}

\* C20: the step in which a worker thread ends changes no box and only
\* queues one callback on the main loop; a box changes only in a step of
\* the main loop that starts or ends no thread and queues nothing; an
\* extracted text reaches a box only from a dialog of a completed run;
\* the callback of a failed run changes no box and opens no dialog.
C20_WorkerNeverWritesBoxes ==
    [][/\ ocr_threads' # ocr_threads =>
              /\ ocr_box_text' = ocr_box_text
              /\ ocr_threads' \subseteq ocr_threads =>
                     Len(ocr_idle') = Len(ocr_idle) + 1
       /\ ocr_box_text' # ocr_box_text =>
              /\ ocr_threads' = ocr_threads
              /\ ocr_idle' = ocr_idle
              /\ \A i \in DOMAIN ocr_box_text :
                     (ocr_box_text'[i] # ocr_box_text[i]
                          /\ ocr_box_text'[i].by # 0) =>
                         \E d \in ocr_dialogs \ ocr_dialogs' :
                             /\ d.kind = "complete"
                             /\ d.text = ocr_box_text'[i].ocr_text
       /\ (ocr_idle # <<>> /\ ocr_idle' = Tail(ocr_idle)
               /\ Head(ocr_idle).kind = "error") =>
              /\ ocr_box_text' = ocr_box_text
              /\ ocr_dialogs' = ocr_dialogs]_vars

\* A failed run whose callback waits on the main loop, its box still
\* holding the text it had.
C20_Witness ==
    /\ ocr_threads = {}
    /\ ocr_idle # <<>>
    /\ Head(ocr_idle).kind = "error"
    /\ ocr_box_text[Head(ocr_idle).box] = OcrText(<<"A">>, 0)
    /\ \E i \in DOMAIN ocr_box_text : ocr_box_text[i].by # 0

---------------------------------------------------------------------------
(* The coordinate transforms as functions: image_to_canvas of an integer  *)
(* image point, then canvas_to_image of the result.  ImageCanvas and      *)
(* CanvasState compute both the same way.                                  *)

MaxXf == 4

\* Offsets in 1/Q pixel (0, 1.5 and -2.5 pixels) and scale factors.
XfOffsets == {0, 6, -10}
XfScales == {<<1, 1>>, <<5, 4>>, <<2, 1>>, <<1, 2>>, <<1, 4>>}

XfInit ==
    /\ xf_in \in [x : (-MaxXf)..MaxXf, y : (-MaxXf)..MaxXf,
                  offset : {<<a, b>> : a \in XfOffsets, b \in {0, 6}},
                  scale_factor : XfScales]
    /\ xf_canvas = <<>>
    /\ xf_back = <<>>

\* image_to_canvas(x, y)
XfToCanvas ==
    /\ xf_canvas = <<>>
    /\ xf_canvas' = <<image_to_canvas(xf_in.x * Q, xf_in.offset[1],
                                      xf_in.scale_factor),
                      image_to_canvas(xf_in.y * Q, xf_in.offset[2],
                                      xf_in.scale_factor)>>
    /\ UNCHANGED <<xf_in, xf_back>>
    /\ UNCHANGED notXf

\* canvas_to_image of the canvas point
XfToImage ==
    /\ xf_canvas # <<>> /\ xf_back = <<>>
    /\ xf_back' = <<canvas_to_image(xf_canvas[1], xf_in.offset[1],
                                    xf_in.scale_factor),
                    canvas_to_image(xf_canvas[2], xf_in.offset[2],
                                    xf_in.scale_factor)>>
    /\ UNCHANGED <<xf_in, xf_canvas>>
    /\ UNCHANGED notXf

InitXform == XfInit /\ DatIdle /\ SaveIdle /\ GestIdle /\ OcrIdle /\ ZoomIdle
                 /\ RotIdle /\ DbIdle /\ ValIdle /\ RegIdle /\ HistIdle
                /\ ClsIdle /\ GeoIdle /\ FitIdle /\ NavIdle /\ RmIdle

NextXform == XfToCanvas \/ XfToImage

SpecXform == InitXform /\ [][NextXform]_vars

\* The point got back is within 1 of the point put in, on both axes.
XfWithinOne ==
    /\ Abs(xf_back[1] - xf_in.x) <= 1
    /\ Abs(xf_back[2] - xf_in.y) <= 1

---------------------------------------------------------------------------
(* Zoom.  zoom_level, scale_factor and the offsets are Python floats; the *)
(* model keeps them in units of 1/ZU, rounded to the nearest unit.         *)

ZU == 1000

\* num/den rounded to the nearest integer, den > 0.
Round(num, den) == (2 * num + den) \div (2 * den)

\* zoom_level = 1.0, and the limits 5.0 and 0.1 of zoom_in and zoom_out.
ZoomOne == ZU
ZoomMax == 5 * ZU
ZoomMin == ZU \div 10

\* A faulty zoom_in whose limit is 6.0; C9 must tell it from the real one.
zoom_in_limit_six(z) == Min(Round(z * 5, 4), 6 * ZU)

\* zoom_in: min(zoom_level * 1.25, 5.0)
zoom_in(z) == Min(Round(z * 5, 4), ZoomMax)

\* zoom_out: max(zoom_level / 1.25, 0.1)
zoom_out(z) == Max(Round(z * 4, 5), ZoomMin)

\* min(canvas_width / image_width, canvas_height / image_height, 1.0)
BaseScale(size) ==
    LET sx == <<size[1], size[3]>>
        sy == <<size[2], size[4]>>
        m == IF sx[1] * sy[2] <= sy[1] * sx[2] THEN sx ELSE sy
    IN  IF m[1] >= m[2] THEN <<1, 1>> ELSE m

\* base_scale_factor * zoom_level
ScaleOf(base, z) == Round(z * base[1], base[2])

\* fit_image / fit_image_to_canvas: the offsets that centre the image.
FitOffset(size, scale) ==
    <<Round(size[1] * ZU - size[3] * scale, 2),
      Round(size[2] * ZU - size[4] * scale, 2)>>

\* CanvasState._update_scale: the offsets keep the canvas centre fixed.
CentreOffset(size, off, old_scale, scale) ==
    LET cx == Round(size[1] * ZU, 2)
        cy == Round(size[2] * ZU, 2)
    IN  <<cx - Round((cx - off[1]) * scale, old_scale),
          cy - Round((cy - off[2]) * scale, old_scale)>>

\* <<canvas width, canvas height, image width, image height>>
ZoomSizes == {<<40, 40, 20, 20>>, <<40, 40, 80, 40>>}

\* An object with its image loaded and fitted, zoom_level 1.0.
ZoomInit ==
    /\ z_impl \in {"ImageCanvas", "CanvasState"}
    /\ z_size \in ZoomSizes
    /\ zoom_level = ZoomOne
    /\ base_scale_factor = BaseScale(z_size)
    /\ z_scale = ScaleOf(base_scale_factor, zoom_level)
    /\ z_offset = FitOffset(z_size, z_scale)
    /\ z_run = <<"none", 0>>
    /\ z_pans = 0

\* How many zoom_in calls take zoom_level z to the upper limit, and how
\* many zoom_out calls to the lower.
RECURSIVE StepsUp(_)
StepsUp(z) == IF zoom_in(z) = z THEN 0 ELSE 1 + StepsUp(zoom_in(z))

RECURSIVE StepsDown(_)
StepsDown(z) == IF zoom_out(z) = z THEN 0 ELSE 1 + StepsDown(zoom_out(z))

\* The length of a run of equal calls is counted up to what takes one
\* limit to the other.
RunCap == Max(StepsUp(ZoomMin), StepsDown(ZoomMax))

Run(op) == <<op, IF z_run[1] = op THEN Min(z_run[2] + 1, RunCap) ELSE 1>>

\* The calls that follow the first pan of a run are counted up to this.
MaxZoomPans == 3

\* The rest of a zoom call once zoom_level is z: ImageCanvas calls
\* fit_image, CanvasState calls _update_scale.
Zoomed(z) ==
    LET scale == ScaleOf(base_scale_factor, z)
    IN  /\ zoom_level' = z
        /\ z_scale' = scale
        /\ z_offset' = IF z_impl = "ImageCanvas" \/ z_scale <= 0
                       THEN FitOffset(z_size, scale)
                       ELSE CentreOffset(z_size, z_offset, z_scale, scale)
        /\ z_pans < MaxZoomPans
        /\ z_pans' = IF z_pans = 0 THEN 0 ELSE z_pans + 1
        /\ UNCHANGED <<z_impl, base_scale_factor, z_size>>

ZoomIn ==
    /\ z_impl # "none"
    /\ Zoomed(zoom_in(zoom_level))
    /\ z_run' = Run("zoom_in")
    /\ UNCHANGED notZoom

ZoomOut ==
    /\ z_impl # "none"
    /\ Zoomed(zoom_out(zoom_level))
    /\ z_run' = Run("zoom_out")
    /\ UNCHANGED notZoom

ResetZoom ==
    /\ z_impl # "none"
    /\ Zoomed(ZoomOne)
    /\ z_run' = Run("reset_zoom")
    /\ UNCHANGED notZoom

InitZoom == ZoomInit /\ DatIdle /\ SaveIdle /\ GestIdle /\ OcrIdle /\ XfIdle
                /\ RotIdle /\ DbIdle /\ ValIdle /\ RegIdle /\ HistIdle
                /\ ClsIdle /\ GeoIdle /\ FitIdle /\ NavIdle /\ RmIdle

NextZoom == ZoomIn \/ ZoomOut \/ ResetZoom

SpecZoom == InitZoom /\ [][NextZoom]_vars

\* C9: after any sequence of zoom_in, zoom_out and reset_zoom from 1.0,
\* zoom_level is within [0.1, 5.0]; zoom_in repeated as often as takes 0.1
\* to the limit leaves 5.0, zoom_out repeated as often as takes 5.0 to the
\* limit leaves 0.1, and more of the same call keeps it there.
C9_ZoomBounds ==
    /\ ZoomMin <= zoom_level /\ zoom_level <= ZoomMax
    /\ (z_run[1] = "zoom_in" /\ z_run[2] >= StepsUp(ZoomMin))
           => zoom_level = ZoomMax
    /\ (z_run[1] = "zoom_out" /\ z_run[2] >= StepsDown(ZoomMax))
           => zoom_level = ZoomMin

\* zoom_in was repeated past the limit, on a canvas that had been zoomed
\* out before.
C9_Witness ==
    /\ z_run = <<"zoom_in", RunCap>>
    /\ zoom_level = ZoomMax

---------------------------------------------------------------------------
(* Rotation of the boxes with their image, by multiples of 90 degrees.    *)

MaxRotBoxes == 2
MaxRotations == 4

\* A faulty rotation whose 90 degree case takes the new y from the old y;
\* C10 must tell it from the real one.
rotate_box_y_from_y(box, angle, orig_width, orig_height) ==
    IF angle = 90
    THEN BoundingBox(box.y, orig_width - box.y - box.width,
                     box.height, box.width, box.class_id, box.ocr_text)
    ELSE box

\* One box through the loop body of rotate_bounding_boxes, angle being
\* 90, 180 or 270.
rotate_box(box, angle, orig_width, orig_height) ==
    CASE angle = 90 ->
             BoundingBox(box.y, orig_width - box.x - box.width,
                         box.height, box.width, box.class_id, box.ocr_text)
      [] angle = 180 ->
             BoundingBox(orig_width - box.x - box.width,
                         orig_height - box.y - box.height,
                         box.width, box.height, box.class_id, box.ocr_text)
      [] angle = 270 ->
             BoundingBox(orig_height - box.y - box.height, box.x,
                         box.height, box.width, box.class_id, box.ocr_text)

\* ImageRotator.rotate_bounding_boxes for an angle that is a multiple of 90.
rotate_bounding_boxes(bs, angle, orig_width, orig_height) ==
    IF bs = <<>> \/ angle % 360 = 0
    THEN [i \in 1..Len(bs) |->
             BoundingBox(bs[i].x, bs[i].y, bs[i].width, bs[i].height,
                         bs[i].class_id, bs[i].ocr_text)]
    ELSE [i \in 1..Len(bs) |->
             rotate_box(bs[i], angle % 360, orig_width, orig_height)]

\* ImageRotator.rotate_pixbuf: a quarter turn swaps width and height.
rotate_pixbuf(size, angle) ==
    IF angle % 360 \in {90, 270} THEN <<size[2], size[1]>> ELSE size

RotAngles == {-90, 0, 90, 180, 270}
RotSizes == {<<40, 60>>, <<50, 50>>, <<30, 20>>}
RotBoxSamples == {BoundingBox(3, 5, 10, 7, 1, <<"A">>),
                  BoundingBox(0, 0, 20, 30, 2, <<>>),
                  BoundingBox(-2, 4, 6, 6, 3, <<"B">>)}

RotInit ==
    /\ rot_in \in [boxes : SeqUpTo(RotBoxSamples, MaxRotBoxes),
                   size : RotSizes]
    /\ rot_boxes = rot_in.boxes
    /\ rot_size = rot_in.size
    /\ rot_ops = <<>>

\* The image is rotated by angle and its boxes with it, the boxes being
\* given the size of the image as it is before this rotation.
RotRotate ==
    /\ Len(rot_ops) < MaxRotations
    /\ \E angle \in RotAngles :
           /\ rot_boxes' = rotate_bounding_boxes(rot_boxes, angle,
                                                 rot_size[1], rot_size[2])
           /\ rot_size' = rotate_pixbuf(rot_size, angle)
           /\ rot_ops' = Append(rot_ops, angle)
    /\ UNCHANGED rot_in
    /\ UNCHANGED notRot

InitRot == RotInit /\ DatIdle /\ SaveIdle /\ GestIdle /\ OcrIdle /\ XfIdle
               /\ ZoomIdle /\ DbIdle /\ ValIdle /\ RegIdle /\ HistIdle
                /\ ClsIdle /\ GeoIdle /\ FitIdle /\ NavIdle /\ RmIdle

NextRot == RotRotate

SpecRot == InitRot /\ [][NextRot]_vars

\* C10: four rotations by 90, each given the size of the image it
\* rotates, return every box with the x, y, width and height it had;
\* class_id and ocr_text are carried through every rotation.
C10_FourQuarterTurns ==
    /\ rot_ops = <<90, 90, 90, 90>> =>
           /\ Len(rot_boxes) = Len(rot_in.boxes)
           /\ \A i \in 1..Len(rot_boxes) :
                  /\ rot_boxes[i].x = rot_in.boxes[i].x
                  /\ rot_boxes[i].y = rot_in.boxes[i].y
                  /\ rot_boxes[i].width = rot_in.boxes[i].width
                  /\ rot_boxes[i].height = rot_in.boxes[i].height
    /\ Len(rot_boxes) = Len(rot_in.boxes)
    /\ \A i \in 1..Len(rot_boxes) :
           /\ rot_boxes[i].class_id = rot_in.boxes[i].class_id
           /\ rot_boxes[i].ocr_text = rot_in.boxes[i].ocr_text

\* Four quarter turns of an image that is not square, with two boxes.
C10_Witness ==
    /\ rot_ops = <<90, 90, 90, 90>>
    /\ rot_in.size[1] # rot_in.size[2]
    /\ Len(rot_in.boxes) = 2
    /\ rot_in.boxes[1] # rot_in.boxes[2]

---------------------------------------------------------------------------
(* The auto-save timer.  on_ocr_text_changed removes the pending GLib     *)
(* timeout source and adds one of 2000 ms; _delayed_auto_save runs when a *)
(* source expires.  Time passes in steps of TickMs, and a source that is  *)
(* due is dispatched before more time passes.  db_count holds the timer   *)
(* expiries, the timer's saves and the user's saves since the last edit,  *)
(* then the edits and the timers an edit removed since the start.         *)

DelayMs == 2000
TickMs == 500
MaxEdits == 3

\* A faulty GLib.source_remove that removes nothing; C12 must tell it from
\* the real one.
source_remove_nothing(sources, id) == sources

\* GLib.source_remove(id)
source_remove(sources, id) == {src \in sources : src.id # id}

\* GLib.timeout_add(ms, callback): the new source and its id, the least
\* id not in use.
timeout_add(sources, ms) ==
    LET id == CHOOSE i \in 1..(Cardinality(sources) + 1) :
                  /\ \A src \in sources : src.id # i
                  /\ \A j \in 1..(i - 1) : \E src \in sources : src.id = j
    IN  [id |-> id, sources |-> sources \cup {[id |-> id, left |-> ms]}]

DbInit ==
    /\ db_sources = {}
    /\ db_timeout = 0
    /\ db_unsaved \in BOOLEAN
    /\ db_since_edit = -1
    /\ db_count = <<0, 0, 0, 0, 0>>
    /\ db_last = <<"load", 0>>

\* on_ocr_text_changed with a box selected: on_boxes_changed marks the
\* window unsaved; a pending timer is removed; a new one is added.
DbTextChanged ==
    /\ db_count[4] < MaxEdits
    /\ LET kept == IF db_timeout # 0
                   THEN source_remove(db_sources, db_timeout)
                   ELSE db_sources
           added == timeout_add(kept, DelayMs)
       IN  /\ db_sources' = added.sources
           /\ db_timeout' = added.id
    /\ db_unsaved' = TRUE
    /\ db_since_edit' = 0
    /\ db_count' = <<0, 0, 0, db_count[4] + 1,
                     IF db_timeout # 0 THEN db_count[5] + 1 ELSE db_count[5]>>
    /\ db_last' = <<"on_ocr_text_changed", 0>>
    /\ UNCHANGED notDb

\* Time passes: no source is due.
DbTick ==
    /\ \A src \in db_sources : src.left > 0
    /\ db_since_edit <= DelayMs
    /\ db_sources' = {[src EXCEPT !.left = @ - TickMs] : src \in db_sources}
    /\ db_since_edit' = IF db_since_edit < 0 THEN db_since_edit
                        ELSE db_since_edit + TickMs
    /\ db_last' = <<"tick", 0>>
    /\ UNCHANGED <<db_timeout, db_unsaved, db_count>>
    /\ UNCHANGED notDb

\* A source is due: _delayed_auto_save saves when the window is unsaved,
\* clears _auto_save_timeout and returns False, which ends the source.
DbDelayedAutoSave ==
    /\ \E src \in db_sources :
           /\ src.left <= 0
           /\ db_sources' = db_sources \ {src}
    /\ db_timeout' = 0
    /\ db_unsaved' = FALSE
    /\ db_count' = <<Min(db_count[1] + 1, 2),
                     IF db_unsaved THEN Min(db_count[2] + 1, 2)
                     ELSE db_count[2],
                     db_count[3], db_count[4], db_count[5]>>
    /\ db_last' = <<"_delayed_auto_save", db_since_edit>>
    /\ UNCHANGED db_since_edit
    /\ UNCHANGED notDb

\* save_dat_file (on_save): the user saves; the timer is left alone.
DbSaveDatFile ==
    /\ db_count[3] < 1
    /\ db_unsaved' = FALSE
    /\ db_count' = [db_count EXCEPT ![3] = @ + 1]
    /\ db_last' = <<"save_dat_file", 0>>
    /\ UNCHANGED <<db_sources, db_timeout, db_since_edit>>
    /\ UNCHANGED notDb

InitDebounce == DbInit /\ DatIdle /\ SaveIdle /\ GestIdle /\ OcrIdle /\ XfIdle
                    /\ ZoomIdle /\ RotIdle /\ ValIdle /\ RegIdle /\ HistIdle
                /\ ClsIdle /\ GeoIdle /\ FitIdle /\ NavIdle /\ RmIdle

NextDebounce ==
    \/ DbTextChanged
    \/ DbTick
    \/ DbDelayedAutoSave
    \/ DbSaveDatFile

SpecDebounce == InitDebounce /\ [][NextDebounce]_vars

\* C12: at most one auto-save timer is pending; the timer never runs
\* sooner than the delay after the last edit; once more than the delay
\* has passed since the last edit the timer has run exactly once, no timer
\* is pending, nothing is unsaved, and the timer has saved exactly once
\* unless the user saved first.
C12_Debounce ==
    /\ Cardinality(db_sources) <= 1
    /\ db_timeout # 0 <=> db_sources # {}
    /\ (db_last[1] = "_delayed_auto_save") => db_last[2] >= DelayMs
    /\ db_count[2] <= 1
    /\ (db_since_edit >= DelayMs /\ \A src \in db_sources : src.left > 0) =>
           /\ db_count[1] = 1
           /\ db_sources = {}
           /\ ~db_unsaved
           /\ db_count[3] = 0 => db_count[2] = 1

\* Two edits less than the delay apart, then the one save.
C12_Witness ==
    /\ db_last[1] = "_delayed_auto_save"
    /\ db_count = <<1, 1, 0, 2, 1>>
    /\ db_sources = {}

---------------------------------------------------------------------------
(* ValidationEngine.  A class of the configuration is a record; the key   *)
(* "regex_pattern" may be absent (has_pattern).  A validation result is a *)
(* record of the keys of the dictionary; error = "" stands for no 'error' *)
(* key.  re.match is modelled for the patterns of PatternSamples.         *)

Upper == {"A", "B", "C", "D", "E", "F", "G", "H", "I", "J", "K", "L", "M",
          "N", "O", "P", "Q", "R", "S", "T", "U", "V", "W", "X", "Y", "Z"}

PatternSamples == {"^[A-Z]+$", "[0-9]", "[A-Z"}

\* re.match(pattern, text): "match", "none", or "error" when re.error is
\* raised ("[A-Z" is an unterminated character set).  "$" also matches
\* before a line feed that ends the text; "[0-9]" needs only a first
\* character that is a digit.
re_match(pattern, text) ==
    CASE pattern = "^[A-Z]+$" ->
            LET body == IF text # <<>> /\ text[Len(text)] = LF
                        THEN SubSeq(text, 1, Len(text) - 1) ELSE text
            IN  IF body # <<>> /\ \A i \in 1..Len(body) : body[i] \in Upper
                THEN "match" ELSE "none"
      [] pattern = "[0-9]" ->
            IF text # <<>> /\ IsDigit(text[1]) THEN "match" ELSE "none"
      [] pattern = "[A-Z" -> "error"

NoClass == [id |-> 0, required |-> FALSE, has_pattern |-> FALSE,
            regex_pattern |-> ""]

\* ValidationEngine._get_class_info: the first class of that id, or None
\* (NoClass).
_get_class_info(config, class_id) ==
    LET at == {i \in 1..Len(config) : config[i].id = class_id}
    IN  IF at = {} THEN NoClass
        ELSE config[CHOOSE i \in at : \A j \in at : i <= j]

\* ValidationEngine.validate_ocr_text
validate_ocr_text(config, ocr_text, class_id) ==
    LET class_info == _get_class_info(config, class_id)
    IN  IF ocr_text = <<>> THEN TRUE
        ELSE IF class_info = NoClass \/ ~class_info.has_pattern THEN TRUE
        ELSE CASE re_match(class_info.regex_pattern, ocr_text) = "match" -> TRUE
               [] re_match(class_info.regex_pattern, ocr_text) = "none" -> FALSE
               [] re_match(class_info.regex_pattern, ocr_text) = "error" -> FALSE

\* ValidationEngine.get_validation_status: 'valid', and which of 'error'
\* and 'message' the dictionary holds.
get_validation_status(config, ocr_text, class_id) ==
    LET class_info == _get_class_info(config, class_id)
    IN  IF class_info = NoClass
        THEN [valid |-> FALSE, error |-> "Unknown class ID", message |-> ""]
        ELSE IF ~class_info.has_pattern
        THEN [valid |-> TRUE, error |-> "",
              message |-> "No validation pattern defined"]
        ELSE IF ocr_text = <<>>
        THEN [valid |-> TRUE, error |-> "", message |-> "Empty text"]
        ELSE CASE re_match(class_info.regex_pattern, ocr_text) = "match" ->
                    [valid |-> TRUE, error |-> "", message |-> "Valid format"]
               [] re_match(class_info.regex_pattern, ocr_text) = "none" ->
                    [valid |-> FALSE, error |-> "",
                     message |-> "Invalid format"]
               [] re_match(class_info.regex_pattern, ocr_text) = "error" ->
                    [valid |-> FALSE, error |-> "Invalid regex pattern",
                     message |-> ""]

\* A _check_missing_classes that finds nothing missing; C14 must tell it
\* from the real one.
_check_missing_classes_never(config, bs) == FALSE

\* ValidationEngine._check_missing_classes
_check_missing_classes(config, bs) ==
    LET required_classes == {config[i].id : i \in
                                 {j \in 1..Len(config) : config[j].required}}
        present_classes == {bs[i].class_id : i \in 1..Len(bs)}
    IN  \E req_cls \in required_classes : req_cls \notin present_classes

\* ValidationEngine._check_regex_errors
_check_regex_errors(config, bs) ==
    \E i \in 1..Len(bs) : ~validate_ocr_text(config, bs[i].ocr_text,
                                              bs[i].class_id)

ValidationResult(valid, no_dat, missing_classes, regex_errors, box_count,
                 error) ==
    [valid |-> valid, no_dat |-> no_dat, missing_classes |-> missing_classes,
     regex_errors |-> regex_errors, box_count |-> box_count, error |-> error]

\* ValidationEngine.validate_dat_file on a file that exists;
\* parse_dat_file catches what it raises, so the handler of
\* validate_dat_file has nothing to catch here.
validate_dat_file(config, text) ==
    LET bs == parse_dat_file(text)
        missing_classes == _check_missing_classes(config, bs)
        regex_errors == _check_regex_errors(config, bs)
    IN  ValidationResult(Len(bs) > 0 /\ ~missing_classes /\ ~regex_errors,
                         FALSE, missing_classes, regex_errors, Len(bs), "")

\* ValidationEngine.validate_all_files: files that are not images get no
\* entry.
validate_all_files(config, disk) ==
    [f \in {g \in DOMAIN disk : disk[g].image} |->
        IF disk[f].exists
        THEN validate_dat_file(config, disk[f].text)
        ELSE ValidationResult(FALSE, TRUE, FALSE, FALSE, 0, "")]

\* A get_file_validation_status that asks for no_dat before error; C15
\* must tell it from the real one.
get_file_validation_status_no_dat_first(cache, file_path) ==
    IF file_path \notin DOMAIN cache THEN "file-normal"
    ELSE LET validation == cache[file_path]
         IN  IF validation.no_dat THEN "file-no-dat"
             ELSE IF validation.error # "" THEN "file-error"
             ELSE IF validation.missing_classes THEN "file-missing-classes"
             ELSE IF validation.regex_errors THEN "file-invalid-regex"
             ELSE IF validation.valid THEN "file-valid"
             ELSE "file-normal"

\* ValidationEngine.get_file_validation_status
get_file_validation_status(cache, file_path) ==
    IF file_path \notin DOMAIN cache THEN "file-normal"
    ELSE LET validation == cache[file_path]
         IN  IF validation.error # "" THEN "file-error"
             ELSE IF validation.no_dat THEN "file-no-dat"
             ELSE IF validation.missing_classes THEN "file-missing-classes"
             ELSE IF validation.regex_errors THEN "file-invalid-regex"
             ELSE IF validation.valid THEN "file-valid"
             ELSE "file-normal"

\* ValidationEngine.get_validation_summary: one pass over the values.
RECURSIVE SummaryOver(_, _, _)
SummaryOver(cache, files, summary) ==
    IF files = {} THEN summary
    ELSE LET f == CHOOSE g \in files : TRUE
             validation == cache[f]
             key == IF validation.error # "" THEN "errors"
                    ELSE IF validation.no_dat THEN "no_dat"
                    ELSE IF validation.missing_classes THEN "missing_classes"
                    ELSE IF validation.regex_errors THEN "regex_errors"
                    ELSE IF validation.valid THEN "valid"
                    ELSE "total"
             next == IF key = "total" THEN summary
                     ELSE [summary EXCEPT ![key] = @ + 1]
         IN  SummaryOver(cache, files \ {f}, next)

get_validation_summary(cache) ==
    SummaryOver(cache, DOMAIN cache,
                [total |-> Cardinality(DOMAIN cache), valid |-> 0,
                 no_dat |-> 0, missing_classes |-> 0, regex_errors |-> 0,
                 errors |-> 0])

ValFiles == {"a.png", "b.jpg", "notes.txt"}
ValImages == {"a.png", "b.jpg"}

ValClass(id, required, pattern) ==
    [id |-> id, required |-> required, has_pattern |-> pattern # "",
     regex_pattern |-> pattern]

\* Class 1 with every sample pattern or none, required or not; class 2
\* required or not, without a pattern.
ValConfigs ==
    {<<ValClass(1, r1, p), ValClass(2, r2, "")>> :
        r1 \in BOOLEAN, r2 \in BOOLEAN, p \in PatternSamples \cup {""}}

ValTexts == {<<>>, <<"A">>, <<"1">>, <<"A", LF>>}

ValBoxLists ==
    {<<>>,
     <<BoundingBox(12, 7, 10, 25, 1, <<"A">>)>>,
     <<BoundingBox(12, 7, 10, 25, 1, <<"1">>)>>,
     <<BoundingBox(12, 7, 10, 25, 1, <<>>)>>,
     <<BoundingBox(12, 7, 10, 25, 1, <<"A">>),
       BoundingBox(30, 7, 10, 25, 2, <<"1">>)>>,
     <<BoundingBox(12, 7, 10, 25, 3, <<"1">>)>>}

NoDat == [image |-> TRUE, exists |-> FALSE, text |-> <<>>]

ValDatFiles == {NoDat} \cup
    {[image |-> TRUE, exists |-> TRUE, text |-> save_dat_content(bs)] :
        bs \in ValBoxLists}

ValDisks ==
    {[f \in ValFiles |-> IF f = "a.png" THEN a
                         ELSE IF f = "b.jpg" THEN b
                         ELSE [image |-> FALSE, exists |-> FALSE,
                               text |-> <<>>]] :
        a \in ValDatFiles, b \in {NoDat, CHOOSE d \in ValDatFiles : d.exists
                                                   /\ d.text = <<>>}}

NoCall == [op |-> "none", text |-> <<>>, class_id |-> 0, file |-> "",
           ret |-> <<>>]

\* The engine as constructed: an empty cache.
ValInit ==
    /\ val_config \in ValConfigs
    /\ val_disk \in ValDisks
    /\ val_cache = <<>>
    /\ val_out = NoCall

\* The engine with a cache of any results: every combination of the keys
\* the status is read from, for each image or for none.
ValResults ==
    {ValidationResult(v, n, m, r, 0, e) :
        v \in BOOLEAN, n \in BOOLEAN, m \in BOOLEAN, r \in BOOLEAN,
        e \in {"", "Parse error"}}

StatusInit ==
    /\ val_config = <<ValClass(1, FALSE, "")>>
    /\ val_disk \in {[f \in ValFiles |-> NoDat]}
    /\ \E fs \in SUBSET ValImages : val_cache \in [fs -> ValResults]
    /\ val_out = NoCall

\* project_state.py: load_directory stores validate_all_files in the
\* cache.
ValValidateAllFiles ==
    /\ val_cache' = validate_all_files(val_config, val_disk)
    /\ val_out' = [NoCall EXCEPT !.op = "validate_all_files"]
    /\ UNCHANGED <<val_config, val_disk>>
    /\ UNCHANGED notVal

ValValidateOcrText ==
    /\ \E t \in ValTexts, c \in 1..3 :
           val_out' = [NoCall EXCEPT !.op = "validate_ocr_text",
                          !.text = t, !.class_id = c,
                          !.ret = <<validate_ocr_text(val_config, t, c)>>]
    /\ UNCHANGED <<val_config, val_disk, val_cache>>
    /\ UNCHANGED notVal

ValGetValidationStatus ==
    /\ \E t \in ValTexts, c \in 1..3 :
           val_out' = [NoCall EXCEPT !.op = "get_validation_status",
                          !.text = t, !.class_id = c,
                          !.ret = <<get_validation_status(val_config, t, c)>>]
    /\ UNCHANGED <<val_config, val_disk, val_cache>>
    /\ UNCHANGED notVal

ValGetFileValidationStatus ==
    /\ \E f \in ValFiles :
           val_out' = [NoCall EXCEPT !.op = "get_file_validation_status",
                          !.file = f,
                          !.ret = <<get_file_validation_status(val_cache, f)>>]
    /\ UNCHANGED <<val_config, val_disk, val_cache>>
    /\ UNCHANGED notVal

ValGetValidationSummary ==
    /\ val_out' = [NoCall EXCEPT !.op = "get_validation_summary",
                      !.ret = <<get_validation_summary(val_cache)>>]
    /\ UNCHANGED <<val_config, val_disk, val_cache>>
    /\ UNCHANGED notVal

InitValid == ValInit /\ DatIdle /\ SaveIdle /\ GestIdle /\ OcrIdle /\ XfIdle
                 /\ ZoomIdle /\ RotIdle /\ DbIdle /\ RegIdle /\ HistIdle
                /\ ClsIdle /\ GeoIdle /\ FitIdle /\ NavIdle /\ RmIdle

InitStatus == StatusInit /\ DatIdle /\ SaveIdle /\ GestIdle /\ OcrIdle
                  /\ XfIdle /\ ZoomIdle /\ RotIdle /\ DbIdle /\ RegIdle
                /\ HistIdle /\ ClsIdle /\ GeoIdle /\ FitIdle /\ NavIdle
                /\ RmIdle

NextValid ==
    \/ ValValidateAllFiles
    \/ ValValidateOcrText
    \/ ValGetValidationStatus
    \/ ValGetFileValidationStatus
    \/ ValGetValidationSummary

SpecValid == InitValid /\ [][NextValid]_vars

SpecStatus == InitStatus /\ [][NextValid]_vars

\* The class of the last call has a pattern that does not compile.
InvalidPatternCall ==
    /\ val_out.op \in {"validate_ocr_text", "get_validation_status"}
    /\ LET class_info == _get_class_info(val_config, val_out.class_id)
       IN  /\ class_info.has_pattern
           /\ class_info.regex_pattern = "[A-Z"

\* C13: when the pattern of a class is not a valid regular expression,
\* validating any text of that class reports the text valid, without a
\* regex error, and a file of such boxes has no regex_errors.
C13_InvalidRegexFailsOpen ==
    /\ InvalidPatternCall =>
           IF val_out.op = "validate_ocr_text"
           THEN val_out.ret[1] = TRUE
           ELSE val_out.ret[1].valid /\ val_out.ret[1].error = ""
    /\ (\A i \in 1..Len(val_config) :
            val_config[i].has_pattern => val_config[i].regex_pattern = "[A-Z")
           => \A f \in DOMAIN val_cache : ~val_cache[f].regex_errors

\* A box fails the pattern of its class: the class has one and the text
\* does not match it.
FailsRegex(config, box) ==
    \E i \in 1..Len(config) :
        /\ config[i].id = box.class_id
        /\ config[i].has_pattern
        /\ re_match(config[i].regex_pattern, box.ocr_text) # "match"

\* C14: an image without a .dat file gets no_dat, not valid and a
\* box_count of 0; one with a .dat file is valid exactly when the file
\* holds a box, every required class has a box, and no box with text
\* fails the pattern of its class.
C14_PerFileValidation ==
    \A f \in DOMAIN val_cache :
        IF ~val_disk[f].exists
        THEN /\ val_cache[f].no_dat
             /\ ~val_cache[f].valid
             /\ val_cache[f].box_count = 0
        ELSE LET bs == parse_dat_file(val_disk[f].text)
             IN  /\ ~val_cache[f].no_dat
                 /\ val_cache[f].box_count = Len(bs)
                 /\ val_cache[f].valid <=>
                        /\ val_cache[f].box_count > 0
                        /\ \A i \in 1..Len(val_config) :
                               val_config[i].required =>
                                   \E k \in 1..Len(bs) :
                                       bs[k].class_id = val_config[i].id
                        /\ \A k \in 1..Len(bs) :
                               bs[k].ocr_text # <<>> =>
                                   ~FailsRegex(val_config, bs[k])

\* A file with boxes of both classes, all required classes present and
\* every text matching, found valid.
C14_Witness ==
    /\ val_out.op = "validate_all_files"
    /\ "a.png" \in DOMAIN val_cache
    /\ val_cache["a.png"].valid
    /\ val_cache["a.png"].box_count = 2
    /\ val_config[1].required /\ val_config[2].required
    /\ val_config[1].regex_pattern = "^[A-Z]+$"
    /\ val_cache["b.jpg"].no_dat

Priority == <<"errors", "no_dat", "missing_classes", "regex_errors", "valid">>

Holds(validation, key) ==
    CASE key = "errors" -> validation.error # ""
      [] key = "no_dat" -> validation.no_dat
      [] key = "missing_classes" -> validation.missing_classes
      [] key = "regex_errors" -> validation.regex_errors
      [] key = "valid" -> validation.valid

CssClass(key) ==
    CASE key = "errors" -> "file-error"
      [] key = "no_dat" -> "file-no-dat"
      [] key = "missing_classes" -> "file-missing-classes"
      [] key = "regex_errors" -> "file-invalid-regex"
      [] key = "valid" -> "file-valid"

\* The files whose first condition that holds, in the order of Priority,
\* is the i-th.
FilesOfRank(cache, i) ==
    {f \in DOMAIN cache :
        /\ Holds(cache[f], Priority[i])
        /\ \A j \in 1..(i - 1) : ~Holds(cache[f], Priority[j])}

\* C15: the status of a file is that of the first condition that holds in
\* the order error, no_dat, missing_classes, regex_errors, valid, and
\* normal when none holds or the file has no cached result; the summary
\* counts each file under that one status.
C15_StatusPriority ==
    /\ val_out.op = "get_file_validation_status" =>
           /\ \A i \in 1..Len(Priority) :
                  val_out.file \in FilesOfRank(val_cache, i)
                      <=> val_out.ret[1] = CssClass(Priority[i])
           /\ val_out.ret[1] = "file-normal" <=>
                  \/ val_out.file \notin DOMAIN val_cache
                  \/ \A i \in 1..Len(Priority) :
                         ~Holds(val_cache[val_out.file], Priority[i])
    /\ val_out.op = "get_validation_summary" =>
           /\ \A i \in 1..Len(Priority) :
                  val_out.ret[1][Priority[i]]
                      = Cardinality(FilesOfRank(val_cache, i))
           /\ val_out.ret[1].total = Cardinality(DOMAIN val_cache)

\* A result with an error and no_dat both set, classified as an error.
C15_Witness ==
    /\ val_out.op = "get_file_validation_status"
    /\ val_out.file \in DOMAIN val_cache
    /\ val_cache[val_out.file].error # ""
    /\ val_cache[val_out.file].no_dat
    /\ val_cache[val_out.file].valid
    /\ val_out.ret[1] = "file-error"

---------------------------------------------------------------------------
(* The region OCRProcessor._run_ocr_thread cuts out of the image.  The     *)
(* box holds Python numbers, here multiples of 1/Q; int() truncates them.  *)

MaxImage == 4

\* A region left as the box gives it; C16 must tell it from the clamp.
clamp_region_unclamped(x, y, w, h, img_width, img_height) ==
    [x |-> x, y |-> y, w |-> w, h |-> h]

\* The four lines under "Clamp coordinates".
clamp_region(x, y, w, h, img_width, img_height) ==
    LET cx == Max(0, Min(x, img_width - 1))
        cy == Max(0, Min(y, img_height - 1))
    IN  [x |-> cx, y |-> cy,
         w |-> Max(1, Min(w, img_width - cx)),
         h |-> Max(1, Min(h, img_height - cy))]

\* The length of the slice a[lo:hi] of an axis of n elements, as numpy
\* cuts it: bounds past the ends are pulled in, negative ones count from
\* the end.
SliceLen(lo, hi, n) ==
    LET norm(i) == IF i < 0 THEN Max(0, i + n) ELSE Min(i, n)
    IN  Max(0, norm(hi) - norm(lo))

RegCoords == {-2 * Q, 0, Q + 2, 3 * Q, 12 * Q}

NoImage == [loaded |-> FALSE, width |-> 0, height |-> 0]

RegImages == {NoImage} \cup
    {[loaded |-> TRUE, width |-> iw, height |-> ih] :
        iw \in 1..MaxImage, ih \in 1..MaxImage}

RegInit ==
    /\ reg_box \in [x : RegCoords, y : RegCoords, width : RegCoords,
                    height : RegCoords]
    /\ reg_image \in RegImages
    /\ reg_out = [step |-> "start", region |-> <<>>, roi_size |-> 0]

\* _run_ocr_thread up to the engine: load the image, clamp, cut the
\* region, and report an error when nothing was loaded or cut.
RegRunOcrThread ==
    /\ reg_out.step = "start"
    /\ IF ~reg_image.loaded
       THEN reg_out' = [step |-> "on_ocr_error", region |-> <<>>,
                        roi_size |-> 0]
       ELSE LET r == clamp_region(Trunc(reg_box.x, Q), Trunc(reg_box.y, Q),
                                  Trunc(reg_box.width, Q),
                                  Trunc(reg_box.height, Q),
                                  reg_image.width, reg_image.height)
                roi_size == SliceLen(r.y, r.y + r.h, reg_image.height)
                            * SliceLen(r.x, r.x + r.w, reg_image.width)
            IN  reg_out' = [step |-> IF roi_size = 0 THEN "on_ocr_error"
                                     ELSE "engine",
                            region |-> <<r>>, roi_size |-> roi_size]
    /\ UNCHANGED <<reg_box, reg_image>>
    /\ UNCHANGED notReg

InitRegion == RegInit /\ DatIdle /\ SaveIdle /\ GestIdle /\ OcrIdle /\ XfIdle
                  /\ ZoomIdle /\ RotIdle /\ DbIdle /\ ValIdle /\ HistIdle
                /\ ClsIdle /\ GeoIdle /\ FitIdle /\ NavIdle /\ RmIdle

NextRegion == RegRunOcrThread

SpecRegion == InitRegion /\ [][NextRegion]_vars

\* C16: for any box and any image of at least 1 x 1, the region cut out
\* for OCR lies in the image and is at least 1 x 1; a region of no area
\* goes to the error callback, never to the engine.
C16_RegionInImage ==
    /\ (reg_out.step # "start" /\ reg_image.loaded) =>
           LET r == reg_out.region[1]
           IN  /\ r.x >= 0 /\ r.y >= 0
               /\ r.w >= 1 /\ r.h >= 1
               /\ r.x + r.w <= reg_image.width
               /\ r.y + r.h <= reg_image.height
    /\ reg_out.step = "engine" => reg_out.roi_size > 0

\* A box that starts left of the image and reaches past its right edge,
\* cut down to the image.
C16_Witness ==
    /\ reg_out.step = "engine"
    /\ reg_box.x < 0
    /\ reg_box.height = 0
    /\ Trunc(reg_box.width, Q) > reg_image.width
    /\ reg_out.region[1].w = reg_image.width
    /\ reg_out.region[1].h = 1

---------------------------------------------------------------------------
(* The deletion history of LabelManager: a SQLite table the deleted boxes *)
(* are inserted into and the last one of an image is taken back from.     *)
(* deleted_at is CURRENT_TIMESTAMP, whole seconds; rows of one second tie *)
(* in ORDER BY deleted_at, and SQLite may give any of them first.         *)

max_history_size == 20
MaxHistBoxes == 2
MaxClock == 1

\* The attributes BoundingBox.__init__ sets; the class defines no others.
BoundingBoxAttrs == {"x", "y", "width", "height", "class_id", "ocr_text",
                     "selected", "name"}

\* The rows of one image that may come first under ORDER BY deleted_at
\* DESC: those of the greatest deleted_at.
NewestRows(db, image_path) ==
    {i \in 1..Len(db) :
        /\ db[i].image_path = image_path
        /\ \A j \in 1..Len(db) :
               db[j].image_path = image_path
                   => db[j].deleted_at <= db[i].deleted_at}

RemoveAt(s, i) == SubSeq(s, 1, i - 1) \o SubSeq(s, i + 1, Len(s))

\* The table after "DELETE ... WHERE image_path = ? AND id NOT IN (SELECT
\* ... ORDER BY deleted_at DESC LIMIT ?)": of the rows of the image, limit
\* of the newest stay.  The sampled tables never reach the limit within
\* one second, so the rows kept are the last ones.
RECURSIVE TrimHistory(_, _, _)
TrimHistory(db, image_path, limit) ==
    LET mine == {i \in 1..Len(db) : db[i].image_path = image_path}
    IN  IF Cardinality(mine) <= limit THEN db
        ELSE TrimHistory(RemoveAt(db, CHOOSE i \in mine :
                                          \A j \in mine : i <= j),
                         image_path, limit)

\* LabelManager.save_deleted_box with db_path set: the arguments of the
\* INSERT read box.x1, box.y1, box.x2 and box.y2; an attribute the box
\* does not have raises AttributeError, which the handler prints, and the
\* table stays as it was.
save_deleted_box(db, clock, image_path, box) ==
    IF ~({"x1", "y1", "x2", "y2"} \subseteq BoundingBoxAttrs) THEN db
    ELSE TrimHistory(Append(db, [image_path |-> image_path,
                                 deleted_at |-> clock, box |-> box]),
                     image_path, max_history_size)

HistPaths == {"a.png", "b.png"}

HistBoxSamples == {BoundingBox(12, 7, 10, 25, 1, <<"A">>),
                   BoundingBox(0, 0, 30, 40, 2, <<>>),
                   BoundingBox(5, 9, 10, 10, 1, <<"B">>)}

NoHistCall == [op |-> "none", path |-> "", ret |-> FALSE, box |-> <<>>,
               expected |-> <<>>]

\* After init_deletion_history_db on the directory: an empty table.
HistInit ==
    /\ hist_boxes \in SeqUpTo(HistBoxSamples, MaxHistBoxes)
    /\ hist_selected = 0
    /\ hist_db = <<>>
    /\ hist_clock = 0
    /\ hist_deleted = [p \in HistPaths |-> <<>>]
    /\ hist_out = NoHistCall

\* LabelManager.select_box
HistSelectBox ==
    /\ \E i \in 1..Len(hist_boxes) :
           /\ i # hist_selected
           /\ hist_selected' = i
    /\ hist_out' = [NoHistCall EXCEPT !.op = "select_box"]
    /\ UNCHANGED <<hist_boxes, hist_db, hist_clock, hist_deleted>>
    /\ UNCHANGED notHist

\* LabelManager.delete_selected_box(current_image_path)
HistDeleteSelectedBox ==
    /\ hist_selected # 0
    /\ \E p \in HistPaths :
           /\ hist_db' = save_deleted_box(hist_db, hist_clock, p,
                                          hist_boxes[hist_selected])
           /\ hist_deleted' = [hist_deleted EXCEPT
                                  ![p] = Append(@, hist_boxes[hist_selected])]
           /\ hist_out' = [NoHistCall EXCEPT !.op = "delete_selected_box",
                              !.path = p, !.ret = TRUE,
                              !.box = <<hist_boxes[hist_selected]>>]
    /\ hist_boxes' = RemoveAt(hist_boxes, hist_selected)
    /\ hist_selected' = 0
    /\ UNCHANGED hist_clock
    /\ UNCHANGED notHist

\* LabelManager.restore_deleted_label(current_image_path), with
\* restore_last_deleted_box.
HistRestoreDeletedLabel ==
    /\ \E p \in HistPaths :
        /\ LET newest == NewestRows(hist_db, p)
               expected == IF hist_deleted[p] = <<>> THEN <<>>
                           ELSE <<hist_deleted[p][Len(hist_deleted[p])]>>
           IN  IF newest = {}
               THEN /\ hist_out' = [NoHistCall EXCEPT
                                       !.op = "restore_deleted_label",
                                       !.path = p, !.expected = expected]
                    /\ UNCHANGED <<hist_boxes, hist_selected, hist_db>>
               ELSE \E i \in newest :
                        /\ hist_db' = RemoveAt(hist_db, i)
                        /\ hist_boxes' = Append(hist_boxes, hist_db[i].box)
                        /\ hist_selected' = Len(hist_boxes) + 1
                        /\ hist_out' = [NoHistCall EXCEPT
                                           !.op = "restore_deleted_label",
                                           !.path = p, !.ret = TRUE,
                                           !.box = <<hist_db[i].box>>,
                                           !.expected = expected]
        /\ hist_deleted' = [hist_deleted EXCEPT
                               ![p] = IF @ = <<>> THEN @
                                      ELSE SubSeq(@, 1, Len(@) - 1)]
    /\ UNCHANGED hist_clock
    /\ UNCHANGED notHist

\* A second passes.
HistTick ==
    /\ hist_clock < MaxClock
    /\ hist_clock' = hist_clock + 1
    /\ hist_out' = [NoHistCall EXCEPT !.op = "tick"]
    /\ UNCHANGED <<hist_boxes, hist_selected, hist_db, hist_deleted>>
    /\ UNCHANGED notHist

InitHistory == HistInit /\ DatIdle /\ SaveIdle /\ GestIdle /\ OcrIdle
                   /\ XfIdle /\ ZoomIdle /\ RotIdle /\ DbIdle /\ ValIdle
                   /\ RegIdle /\ ClsIdle /\ GeoIdle /\ FitIdle /\ NavIdle
                /\ RmIdle

NextHistory ==
    \/ HistSelectBox
    \/ HistDeleteSelectedBox
    \/ HistRestoreDeletedLabel
    \/ HistTick

SpecHistory == InitHistory /\ [][NextHistory]_vars

\* C17: restoring on an image path with deleted boxes not yet restored
\* returns true and appends a box with the fields of the one deleted
\* last on that path; the history of a path holds at most 20 rows.
C17_RestoreLastDeleted ==
    /\ (hist_out.op = "restore_deleted_label" /\ hist_out.expected # <<>>) =>
           /\ hist_out.ret
           /\ hist_out.box = hist_out.expected
           /\ hist_boxes # <<>>
           /\ hist_boxes[Len(hist_boxes)] = hist_out.expected[1]
    /\ \A p \in HistPaths :
           Cardinality({i \in 1..Len(hist_db) : hist_db[i].image_path = p})
               <= max_history_size

---------------------------------------------------------------------------
(* The class id given to a new box, as ImageCanvas.on_button_release,     *)
(* BoxInteractionManager.create_box and LabelManager.create_box choose    *)
(* it.  Only the class ids of the boxes are read.                         *)

MaxClsBoxes == 4

\* "for cls_id in available_classes: if cls_id not in used_classes: ...
\* break", over what is left of the list; class_id keeps its default when
\* the loop ends.
RECURSIVE ScanClasses(_, _, _)
ScanClasses(available_classes, used_classes, class_id) ==
    IF available_classes = <<>> THEN class_id
    ELSE IF Head(available_classes) \notin used_classes
         THEN Head(available_classes)
         ELSE ScanClasses(Tail(available_classes), used_classes, class_id)

UsedClasses(bs) == {bs[i] : i \in 1..Len(bs)}

\* A choice that always takes the first configured id; C18 must tell it
\* from the real one.
lm_new_class_first(available_classes, bs) == available_classes[1]

\* ImageCanvas.on_button_release
canvas_new_class(available_classes, bs) ==
    ScanClasses(available_classes, UsedClasses(bs), available_classes[1])

\* BoxInteractionManager.create_box
bim_new_class(available_classes, bs) ==
    ScanClasses(available_classes, UsedClasses(bs), available_classes[1])

\* LabelManager.create_box
lm_new_class(available_classes, bs) ==
    ScanClasses(available_classes, UsedClasses(bs), available_classes[1])

ClsConfigs == {<<1, 2, 3>>, <<3, 1, 2>>, <<2, 1>>}

ClsInit ==
    /\ cls_config \in ClsConfigs
    /\ cls_boxes \in SeqUpTo(1..3, 2)
    /\ cls_out = [impl |-> "none", before |-> <<>>, class_id |-> 0]

ClsCreated(who, class_id) ==
    /\ cls_boxes' = Append(cls_boxes, class_id)
    /\ cls_out' = [impl |-> who, before |-> cls_boxes, class_id |-> class_id]
    /\ UNCHANGED cls_config
    /\ UNCHANGED notCls

ClsCanvasCreate ==
    /\ Len(cls_boxes) < MaxClsBoxes
    /\ ClsCreated("ImageCanvas", canvas_new_class(cls_config, cls_boxes))

ClsBimCreate ==
    /\ Len(cls_boxes) < MaxClsBoxes
    /\ ClsCreated("CanvasState", bim_new_class(cls_config, cls_boxes))

ClsLmCreate ==
    /\ Len(cls_boxes) < MaxClsBoxes
    /\ ClsCreated("LabelManager", lm_new_class(cls_config, cls_boxes))

InitClass == ClsInit /\ DatIdle /\ SaveIdle /\ GestIdle /\ OcrIdle /\ XfIdle
                 /\ ZoomIdle /\ RotIdle /\ DbIdle /\ ValIdle /\ RegIdle
                 /\ HistIdle /\ GeoIdle /\ FitIdle /\ NavIdle /\ RmIdle

NextClass ==
    \/ ClsCanvasCreate
    \/ ClsBimCreate
    \/ ClsLmCreate

SpecClass == InitClass /\ [][NextClass]_vars

\* C18: a new box gets the first configured class id that no box of the
\* list has, and the first configured id when every configured id is in
\* use; the three implementations choose the same id from the same list.
C18_FirstUnusedClass ==
    cls_out.impl # "none" =>
        LET used == {cls_out.before[i] : i \in 1..Len(cls_out.before)}
            free == {k \in 1..Len(cls_config) : cls_config[k] \notin used}
        IN  /\ free # {} =>
                   \E k \in free :
                       /\ cls_out.class_id = cls_config[k]
                       /\ \A j \in 1..(k - 1) : cls_config[j] \in used
            /\ free = {} => cls_out.class_id = cls_config[1]
            /\ canvas_new_class(cls_config, cls_out.before)
                   = bim_new_class(cls_config, cls_out.before)
            /\ bim_new_class(cls_config, cls_out.before)
                   = lm_new_class(cls_config, cls_out.before)

\* Every configured id in use: LabelManager falls back to the first.
C18_Witness ==
    /\ cls_out.impl = "LabelManager"
    /\ cls_config = <<3, 1, 2>>
    /\ {cls_out.before[i] : i \in 1..Len(cls_out.before)} = {1, 2, 3}
    /\ cls_out.class_id = 3

---------------------------------------------------------------------------
(* CanvasState from its constructor on: sizes, fit, the transform to      *)
(* image coordinates, and the drag and resize updates of                  *)
(* BoxInteractionManager on one box.  zoom_level stays 1.0 here.  The     *)
(* sampled sizes give scale factors 1, 1/2 and 1/4 and whole offsets, so  *)
(* every quotient below is exact.  A division by a scale factor of 0      *)
(* raises ZeroDivisionError.                                              *)

MaxGeoEvents == 4

GeoSizes == {<<0, 0>>, <<40, 40>>, <<80, 40>>, <<160, 80>>}

\* min(scale_x, scale_y, 1.0) for scale_x = cw/iw and scale_y = ch/ih.
FitScale(canvas, image) ==
    LET sx == <<canvas[1], image[1]>>
        sy == <<canvas[2], image[2]>>
        least == IF sx[1] * sy[2] <= sy[1] * sx[2] THEN sx ELSE sy
    IN  IF least[1] >= least[2] THEN <<1, 1>>
        ELSE <<1, least[2] \div least[1]>>

GeoCall(op) == [op |-> op, ret |-> <<>>, raised |-> "", box |-> geo_box,
                scale_factor |-> geo_scale, image |-> geo_image]

GeoEvent ==
    /\ geo_events < MaxGeoEvents
    /\ geo_events' = geo_events + 1

\* CanvasState.__init__ and a box in BoxInteractionManager.boxes
GeoInit ==
    /\ geo_canvas = <<0, 0>>
    /\ geo_image = <<0, 0>>
    /\ geo_scale = <<1, 1>>
    /\ geo_offset = <<0, 0>>
    /\ geo_start = [handle |-> "none", x |-> 0, y |-> 0, width |-> 0,
                    height |-> 0]
    /\ geo_box \in {[x |-> 12, y |-> 7, width |-> 10, height |-> 25],
                    [x |-> 0, y |-> 0, width |-> 30, height |-> 40]}
    /\ geo_out = [op |-> "none", ret |-> <<>>, raised |-> "",
                  box |-> geo_box, scale_factor |-> <<1, 1>>,
                  image |-> <<0, 0>>]
    /\ geo_events = 0

\* CanvasState.set_canvas_size
GeoSetCanvasSize ==
    /\ GeoEvent
    /\ \E size \in GeoSizes : geo_canvas' = size
    /\ geo_out' = GeoCall("set_canvas_size")
    /\ UNCHANGED <<geo_image, geo_scale, geo_offset, geo_start, geo_box>>
    /\ UNCHANGED notGeo

\* CanvasState.set_image_size
GeoSetImageSize ==
    /\ GeoEvent
    /\ \E size \in GeoSizes : geo_image' = size
    /\ geo_out' = GeoCall("set_image_size")
    /\ UNCHANGED <<geo_canvas, geo_scale, geo_offset, geo_start, geo_box>>
    /\ UNCHANGED notGeo

\* CanvasState.fit_image_to_canvas
GeoFitImageToCanvas ==
    /\ GeoEvent
    /\ IF geo_canvas[1] <= 0 \/ geo_canvas[2] <= 0
          \/ geo_image[1] <= 0 \/ geo_image[2] <= 0
       THEN UNCHANGED <<geo_scale, geo_offset>>
       ELSE LET sf == FitScale(geo_canvas, geo_image)
            IN  /\ geo_scale' = sf
                /\ geo_offset' =
                       <<(geo_canvas[1] * sf[2] - geo_image[1] * sf[1])
                             \div (2 * sf[2]),
                         (geo_canvas[2] * sf[2] - geo_image[2] * sf[1])
                             \div (2 * sf[2])>>
    /\ geo_out' = GeoCall("fit_image_to_canvas")
    /\ UNCHANGED <<geo_canvas, geo_image, geo_start, geo_box>>
    /\ UNCHANGED notGeo

\* CanvasState.canvas_to_image
GeoCanvasToImage ==
    /\ GeoEvent
    /\ \E p \in CsPoints :
           geo_out' =
               IF geo_scale[1] = 0
               THEN [GeoCall("canvas_to_image") EXCEPT
                        !.raised = "ZeroDivisionError"]
               ELSE [GeoCall("canvas_to_image") EXCEPT
                        !.ret = <<Trunc((p[1] - geo_offset[1]) * geo_scale[2],
                                        geo_scale[1]),
                                  Trunc((p[2] - geo_offset[2]) * geo_scale[2],
                                        geo_scale[1])>>]
    /\ UNCHANGED <<geo_canvas, geo_image, geo_scale, geo_offset, geo_start,
                   geo_box>>
    /\ UNCHANGED notGeo

\* CanvasState.start_resize on the box
GeoStartResize ==
    /\ GeoEvent
    /\ \E h \in CsHandles :
           geo_start' = [handle |-> h, x |-> geo_box.x, y |-> geo_box.y,
                         width |-> geo_box.width, height |-> geo_box.height]
    /\ geo_out' = GeoCall("start_resize")
    /\ UNCHANGED <<geo_canvas, geo_image, geo_scale, geo_offset, geo_box>>
    /\ UNCHANGED notGeo

\* BoxInteractionManager.update_box_position
GeoUpdateBoxPosition ==
    /\ GeoEvent
    /\ \E d \in Deltas :
           IF geo_scale[1] = 0
           THEN /\ geo_out' = [GeoCall("update_box_position") EXCEPT
                                  !.raised = "ZeroDivisionError"]
                /\ UNCHANGED geo_box
           ELSE LET img_dx == (d[1] * geo_scale[2]) \div geo_scale[1]
                    img_dy == (d[2] * geo_scale[2]) \div geo_scale[1]
                IN  /\ geo_box' = [geo_box EXCEPT
                                      !.x = Max(0, geo_start.x + img_dx),
                                      !.y = Max(0, geo_start.y + img_dy)]
                    /\ geo_out' = GeoCall("update_box_position")
    /\ UNCHANGED <<geo_canvas, geo_image, geo_scale, geo_offset, geo_start>>
    /\ UNCHANGED notGeo

\* BoxInteractionManager.update_box_size with the handle of start_resize
GeoUpdateBoxSize ==
    /\ GeoEvent
    /\ geo_start.handle # "none"
    /\ \E d \in Deltas :
           IF geo_scale[1] = 0
           THEN /\ geo_out' = [GeoCall("update_box_size") EXCEPT
                                  !.raised = "ZeroDivisionError"]
                /\ UNCHANGED geo_box
           ELSE LET img_dx == (d[1] * geo_scale[2]) \div geo_scale[1]
                    img_dy == (d[2] * geo_scale[2]) \div geo_scale[1]
                    st == <<geo_start.x, geo_start.y, geo_start.width,
                            geo_start.height>>
                    sized == ResizeBy(geo_box, st, geo_start.handle,
                                      img_dx, img_dy)
                IN  /\ geo_box' = [sized EXCEPT
                                      !.width = Max(@, MinSize),
                                      !.height = Max(@, MinSize)]
                    /\ geo_out' = GeoCall("update_box_size")
    /\ UNCHANGED <<geo_canvas, geo_image, geo_scale, geo_offset, geo_start>>
    /\ UNCHANGED notGeo

InitGeometry == GeoInit /\ DatIdle /\ SaveIdle /\ GestIdle /\ OcrIdle
                    /\ XfIdle /\ ZoomIdle /\ RotIdle /\ DbIdle /\ ValIdle
                    /\ RegIdle /\ HistIdle /\ ClsIdle /\ FitIdle /\ NavIdle
                /\ RmIdle

NextGeometry ==
    \/ GeoSetCanvasSize
    \/ GeoSetImageSize
    \/ GeoFitImageToCanvas
    \/ GeoCanvasToImage
    \/ GeoStartResize
    \/ GeoUpdateBoxPosition
    \/ GeoUpdateBoxSize

SpecGeometry == InitGeometry /\ [][NextGeometry]_vars

\* C19: when scale_factor is 0 or the image has a side of 0,
\* canvas_to_image, the drag update and the resize update raise nothing
\* and leave the box as it was.
C19_DegenerateNoOp ==
    (/\ geo_out.op \in {"canvas_to_image", "update_box_position",
                        "update_box_size"}
     /\ \/ geo_out.scale_factor[1] = 0
        \/ geo_out.image[1] = 0
        \/ geo_out.image[2] = 0)
        => /\ geo_out.raised = ""
           /\ geo_box = geo_out.box

---------------------------------------------------------------------------
(* fit_pixbuf of ImageCanvas and fit_image_to_canvas of CanvasState, with  *)
(* zoom_level 1.0.  Scale factors and offsets are exact fractions         *)
(* <<numerator, denominator>> with a positive denominator.                *)

RatLe(a, b) == a[1] * b[2] <= b[1] * a[2]
RatEq(a, b) == a[1] * b[2] = b[1] * a[2]
RatMin(a, b) == IF RatLe(a, b) THEN a ELSE b

FitView(base, scale, offset_x, offset_y) ==
    [base_scale_factor |-> base, scale_factor |-> scale,
     offset_x |-> offset_x, offset_y |-> offset_y]

\* The assignments of both fits once their tests have passed; limit is
\* the 1.0 of min(scale_x, scale_y, 1.0).
FitAssign(canvas, image, limit) ==
    LET scale_x == <<canvas[1], image[1]>>
        scale_y == <<canvas[2], image[2]>>
        base == RatMin(RatMin(scale_x, scale_y), limit)
    IN  FitView(base, base,
                <<canvas[1] * base[2] - image[1] * base[1], 2 * base[2]>>,
                <<canvas[2] * base[2] - image[2] * base[1], 2 * base[2]>>)

\* A fit that scales a small image up to the canvas; C21 must tell it
\* from the real one.
fit_image_to_canvas_upscaling(view, canvas, image) ==
    IF canvas[1] <= 0 \/ canvas[2] <= 0 \/ image[1] <= 0 \/ image[2] <= 0
    THEN view
    ELSE FitAssign(canvas, image, <<8, 1>>)

\* CanvasState.fit_image_to_canvas
fit_image_to_canvas(view, canvas, image) ==
    IF canvas[1] <= 0 \/ canvas[2] <= 0 THEN view
    ELSE IF image[1] <= 0 \/ image[2] <= 0 THEN view
    ELSE FitAssign(canvas, image, <<1, 1>>)

\* ImageCanvas.fit_pixbuf; image = <<0, 0>> stands for pixbuf = None.
fit_image(view, canvas, image) ==
    IF image = <<0, 0>> THEN view
    ELSE IF canvas[1] <= 0 \/ canvas[2] <= 0 THEN view
    ELSE FitAssign(canvas, image, <<1, 1>>)

FitCanvasSizes == {<<0, 0>>, <<800, 800>>, <<40, 30>>, <<0, 30>>}
FitImageSizes == {<<1000, 500>>, <<20, 20>>, <<30, 90>>, <<64, 48>>}

\* Both constructors: no image, scale factors 1.0, offsets 0; the widget
\* has no size yet.
FitInit ==
    /\ fit_impl \in {"ImageCanvas", "CanvasState"}
    /\ fit_canvas = <<0, 0>>
    /\ fit_pixbuf = <<0, 0>>
    /\ fit_view = FitView(<<1, 1>>, <<1, 1>>, <<0, 1>>, <<0, 1>>)
    /\ fit_out = [op |-> "none", before |-> fit_view]

\* The widget is given a size; CanvasState.set_canvas_size.
FitSetCanvasSize ==
    /\ \E size \in FitCanvasSizes :
           /\ size # fit_canvas
           /\ fit_canvas' = size
    /\ fit_out' = [op |-> "set_canvas_size", before |-> fit_view]
    /\ UNCHANGED <<fit_impl, fit_pixbuf, fit_view>>
    /\ UNCHANGED notFit

\* CanvasState.set_image_size, also with a size of 0.
FitSetImageSize ==
    /\ fit_impl = "CanvasState"
    /\ \E size \in FitImageSizes \cup {<<0, 0>>, <<0, 48>>} :
           /\ size # fit_pixbuf
           /\ fit_pixbuf' = size
    /\ fit_out' = [op |-> "set_image_size", before |-> fit_view]
    /\ UNCHANGED <<fit_impl, fit_canvas, fit_view>>
    /\ UNCHANGED notFit

\* CanvasState.fit_image_to_canvas
FitImageToCanvas ==
    /\ fit_impl = "CanvasState"
    /\ fit_view' = fit_image_to_canvas(fit_view, fit_canvas, fit_pixbuf)
    /\ fit_out' = [op |-> "fit", before |-> fit_view]
    /\ UNCHANGED <<fit_impl, fit_canvas, fit_pixbuf>>
    /\ UNCHANGED notFit

\* ImageCanvas.load_image: the pixbuf is set, then fit_pixbuf.
FitLoadImage ==
    /\ fit_impl = "ImageCanvas"
    /\ \E size \in FitImageSizes :
           /\ fit_pixbuf' = size
           /\ fit_view' = fit_image(fit_view, fit_canvas, size)
    /\ fit_out' = [op |-> "fit", before |-> fit_view]
    /\ UNCHANGED <<fit_impl, fit_canvas>>
    /\ UNCHANGED notFit

\* ImageCanvas.fit_pixbuf, as reset_zoom calls it with zoom_level 1.0.
FitImage ==
    /\ fit_impl = "ImageCanvas"
    /\ fit_view' = fit_image(fit_view, fit_canvas, fit_pixbuf)
    /\ fit_out' = [op |-> "fit", before |-> fit_view]
    /\ UNCHANGED <<fit_impl, fit_canvas, fit_pixbuf>>
    /\ UNCHANGED notFit

InitFit == FitInit /\ DatIdle /\ SaveIdle /\ GestIdle /\ OcrIdle /\ XfIdle
               /\ ZoomIdle /\ RotIdle /\ DbIdle /\ ValIdle /\ RegIdle
               /\ HistIdle /\ ClsIdle /\ GeoIdle /\ NavIdle /\ RmIdle

NextFit ==
    \/ FitSetCanvasSize
    \/ FitSetImageSize
    \/ FitImageToCanvas
    \/ FitLoadImage
    \/ FitImage

SpecFit == InitFit /\ [][NextFit]_vars

FitPositive ==
    /\ fit_canvas[1] > 0 /\ fit_canvas[2] > 0
    /\ fit_pixbuf[1] > 0 /\ fit_pixbuf[2] > 0

\* C21: after a fit with positive sizes the base scale is the least of
\* canvasW/imageW, canvasH/imageH and 1, and each offset is half of what
\* the scaled image leaves of the canvas; a 1000x500 image in an 800x800
\* canvas gets 0.8, 0 and 200; a fit with a size that is not positive
\* leaves the view as it was.
C21_FitCentres ==
    fit_out.op = "fit" =>
        IF FitPositive
        THEN LET sx == <<fit_canvas[1], fit_pixbuf[1]>>
                 sy == <<fit_canvas[2], fit_pixbuf[2]>>
                 b == fit_view.base_scale_factor
             IN  /\ RatLe(b, sx) /\ RatLe(b, sy) /\ RatLe(b, <<1, 1>>)
                 /\ RatEq(b, sx) \/ RatEq(b, sy) \/ RatEq(b, <<1, 1>>)
                 /\ RatEq(fit_view.scale_factor, b)
                 /\ 2 * fit_view.offset_x[1] * b[2]
                        = (fit_canvas[1] * b[2] - fit_pixbuf[1] * b[1])
                              * fit_view.offset_x[2]
                 /\ 2 * fit_view.offset_y[1] * b[2]
                        = (fit_canvas[2] * b[2] - fit_pixbuf[2] * b[1])
                              * fit_view.offset_y[2]
                 /\ (fit_canvas = <<800, 800>> /\ fit_pixbuf = <<1000, 500>>)
                        => /\ RatEq(b, <<4, 5>>)
                           /\ RatEq(fit_view.offset_x, <<0, 1>>)
                           /\ RatEq(fit_view.offset_y, <<200, 1>>)
        ELSE fit_view = fit_out.before

\* The example of the claim, fitted.
C21_Witness ==
    /\ fit_out.op = "fit"
    /\ fit_canvas = <<800, 800>>
    /\ fit_pixbuf = <<1000, 500>>
    /\ RatEq(fit_view.base_scale_factor, <<4, 5>>)
    /\ RatEq(fit_view.offset_y, <<200, 1>>)


\* ======================================================================
\* Navigation between the images of a directory: ProjectManager
\* (project_state.py) and the handlers of the window that call it
\* (event_handlers.py, main_window.py).  An image is its file name; the
\* .dat file next to it is nav_disk[name].  A box is a small number.
\* ======================================================================

MaxNavBoxes == 1

NavNames == {"a", "b", "c"}

\* the directories that can be opened: the sorted images of each, and one
\* that cannot be listed (iterdir raises)
NavDirs ==
    {[readable |-> TRUE, files |-> f] : f \in {<<>>, <<"a">>, <<"b", "c">>}}
        \cup {[readable |-> FALSE, files |-> <<>>]}

NavBoxIds == {1, 2}

NoPath == <<>>

ImagePath(name) == <<name, "png">>

\* Path(image).with_suffix('.dat')
DatPath(path) == <<path[1], "dat">>

NoDatFile == [exists |-> FALSE, boxes |-> <<>>]

DatFile(bs) == [exists |-> TRUE, boxes |-> bs]

\* ProjectManager.__init__
ProjectManagerInit ==
    [image_files |-> <<>>, current_index |-> -1,
     current_image_path |-> NoPath, current_dat_path |-> NoPath]

\* the objects a handler works on; fired counts on_image_changed calls
NavWorld ==
    [pm |-> nav_pm, disk |-> nav_disk, boxes |-> nav_boxes,
     unsaved |-> nav_unsaved, fired |-> 0]

\* LabelEditorWindow.load_current_image: the boxes of the current .dat
\* file replace the canvas boxes and unsaved_changes is reset
load_current_image(w) ==
    IF w.pm.current_image_path = NoPath THEN w
    ELSE LET dat == w.disk[w.pm.current_dat_path[1]]
         IN  [w EXCEPT !.boxes = IF dat.exists THEN dat.boxes ELSE <<>>,
                       !.unsaved = FALSE]

\* LabelEditorWindow._on_image_changed, set as on_image_changed
on_image_changed(w) == [load_current_image(w) EXCEPT !.fired = @ + 1]

\* LabelEditorWindow.auto_save_current
auto_save_current(w) ==
    IF w.pm.current_image_path # NoPath /\ w.unsaved
    THEN [w EXCEPT !.disk[DatPath(w.pm.current_image_path)[1]] =
                       DatFile(w.boxes),
                   !.unsaved = FALSE]
    ELSE w

\* ProjectManager.navigate_to_image
navigate_to_image(w, index) ==
    IF 0 <= index /\ index < Len(w.pm.image_files)
    THEN LET path == ImagePath(w.pm.image_files[index + 1])
         IN  [w |-> on_image_changed(
                        [w EXCEPT !.pm.current_index = index,
                                  !.pm.current_image_path = path,
                                  !.pm.current_dat_path = DatPath(path)]),
              ret |-> TRUE]
    ELSE [w |-> w, ret |-> FALSE]

\* ProjectManager.navigate_next
navigate_next(w) ==
    IF w.pm.current_index < Len(w.pm.image_files) - 1
    THEN navigate_to_image(w, w.pm.current_index + 1)
    ELSE [w |-> w, ret |-> FALSE]

\* ProjectManager.navigate_previous
navigate_previous(w) ==
    IF w.pm.current_index > 0
    THEN navigate_to_image(w, w.pm.current_index - 1)
    ELSE [w |-> w, ret |-> FALSE]

\* ProjectManager.load_directory, with _on_directory_loaded of the window;
\* when the directory cannot be listed the exception is caught after
\* image_files was emptied and before the current image is reset
load_directory(w, dir) ==
    LET files == dir.files
        first == IF files = <<>> THEN NoPath ELSE ImagePath(files[1])
        pm == [image_files |-> files,
               current_index |-> IF files = <<>> THEN -1 ELSE 0,
               current_image_path |-> first,
               current_dat_path |->
                   IF files = <<>> THEN NoPath ELSE DatPath(first)]
        loaded == [w EXCEPT !.pm = pm]
    IN  IF ~ dir.readable
        THEN [w |-> [w EXCEPT !.pm.image_files = <<>>], ret |-> FALSE]
        ELSE [w |-> IF Len(files) > 0 THEN load_current_image(loaded)
                    ELSE loaded,
              ret |-> TRUE]

\* EventHandlerMixin.on_next_clicked
on_next_clicked(w) ==
    LET r == navigate_next(w)
    IN  IF r.ret
        THEN [w |-> load_current_image(auto_save_current(r.w)), ret |-> TRUE]
        ELSE r

\* EventHandlerMixin.on_prev_clicked
on_prev_clicked(w) ==
    LET r == navigate_previous(w)
    IN  IF r.ret
        THEN [w |-> load_current_image(auto_save_current(r.w)), ret |-> TRUE]
        ELSE r

\* EventHandlerMixin.on_file_selected, original_index the place of the
\* selected row in image_files (-1: not found)
on_file_selected(w, original_index) ==
    IF original_index # -1 /\ original_index # w.pm.current_index
    THEN LET r == navigate_to_image(auto_save_current(w), original_index)
         IN  IF r.ret THEN [w |-> load_current_image(r.w), ret |-> TRUE]
             ELSE r
    ELSE [w |-> w, ret |-> FALSE]

NavCall(op, arg, r) ==
    [op |-> op, arg |-> arg, ret |-> r.ret, fired |-> r.w.fired,
     pm |-> nav_pm, boxes |-> nav_boxes, unsaved |-> nav_unsaved]

NavAssign(op, arg, r) ==
    /\ nav_pm' = r.w.pm
    /\ nav_disk' = r.w.disk
    /\ nav_boxes' = r.w.boxes
    /\ nav_unsaved' = r.w.unsaved
    /\ nav_out' = NavCall(op, arg, r)

NavInit ==
    /\ nav_pm = ProjectManagerInit
    /\ nav_disk \in {[n \in NavNames |-> NoDatFile],
                     [n \in NavNames |-> DatFile(<<1>>)]}
    /\ nav_boxes = <<>>
    /\ nav_unsaved = FALSE
    /\ nav_confirmed = {}
    /\ nav_out = <<>>

\* on_open_directory_response: load_directory, then load_current_image
NavOpenDirectory ==
    \E dir \in NavDirs :
        /\ LET r == load_directory(NavWorld, dir)
           IN  NavAssign("load_directory", dir,
                         [r EXCEPT !.w = load_current_image(r.w)])
        /\ UNCHANGED nav_confirmed
        /\ UNCHANGED notNav

\* a box is drawn on, or the last box deleted from, the current image:
\* the canvas list changes and on_boxes_changed sets unsaved_changes
NavBoxesChanged ==
    /\ nav_pm.current_image_path # NoPath
    /\ \/ \E b \in NavBoxIds :
            /\ Len(nav_boxes) < MaxNavBoxes
            /\ nav_boxes' = Append(nav_boxes, b)
       \/ /\ nav_boxes # <<>>
          /\ nav_boxes' = SubSeq(nav_boxes, 1, Len(nav_boxes) - 1)
    /\ nav_unsaved' = TRUE
    /\ nav_out' = [NavCall("on_boxes_changed", 0, [w |-> NavWorld, ret |-> TRUE])
                      EXCEPT !.pm = nav_pm]
    /\ UNCHANGED <<nav_pm, nav_disk, nav_confirmed>>
    /\ UNCHANGED notNav

NavNextClicked ==
    /\ nav_pm.image_files # <<>>
    /\ NavAssign("on_next_clicked", 0, on_next_clicked(NavWorld))
    /\ UNCHANGED nav_confirmed
    /\ UNCHANGED notNav

NavPrevClicked ==
    /\ nav_pm.image_files # <<>>
    /\ NavAssign("on_prev_clicked", 0, on_prev_clicked(NavWorld))
    /\ UNCHANGED nav_confirmed
    /\ UNCHANGED notNav

NavFileSelected ==
    \E selected \in 0 .. Len(nav_pm.image_files) - 1 :
        /\ NavAssign("on_file_selected", selected,
                     on_file_selected(NavWorld, selected))
        /\ UNCHANGED nav_confirmed
        /\ UNCHANGED notNav

\* LabelEditorWindow.toggle_confirmation: confirming an image that has a
\* next one goes on to it through on_next_clicked
NavToggleConfirmation ==
    /\ nav_pm.current_image_path # NoPath
    /\ LET name == nav_pm.current_image_path[1]
           new_status == name \notin nav_confirmed
           can_go_next ==
               nav_pm.current_index < Len(nav_pm.image_files) - 1
       IN  /\ nav_confirmed' = IF new_status THEN nav_confirmed \cup {name}
                                             ELSE nav_confirmed \ {name}
           /\ NavAssign("toggle_confirmation", 0,
                        IF new_status /\ can_go_next
                        THEN on_next_clicked(NavWorld)
                        ELSE [w |-> NavWorld, ret |-> FALSE])
    /\ UNCHANGED notNav

\* ProjectManager.navigate_to_image called with any index
NavNavigateToImage ==
    \E index \in -1 .. Len(nav_pm.image_files) + 1 :
        /\ NavAssign("navigate_to_image", index,
                     navigate_to_image(NavWorld, index))
        /\ UNCHANGED nav_confirmed
        /\ UNCHANGED notNav

\* ProjectManager.navigate_next and navigate_previous called directly
NavNavigateNext ==
    /\ NavAssign("navigate_next", 0, navigate_next(NavWorld))
    /\ UNCHANGED nav_confirmed
    /\ UNCHANGED notNav

NavNavigatePrevious ==
    /\ NavAssign("navigate_previous", 0, navigate_previous(NavWorld))
    /\ UNCHANGED nav_confirmed
    /\ UNCHANGED notNav

InitNav == NavInit /\ DatIdle /\ SaveIdle /\ GestIdle /\ OcrIdle /\ XfIdle
               /\ ZoomIdle /\ RotIdle /\ DbIdle /\ ValIdle /\ RegIdle
               /\ HistIdle /\ ClsIdle /\ GeoIdle /\ FitIdle /\ RmIdle

NextNav ==
    \/ NavOpenDirectory
    \/ NavBoxesChanged
    \/ NavNextClicked
    \/ NavPrevClicked
    \/ NavFileSelected
    \/ NavToggleConfirmation
    \/ NavNavigateToImage
    \/ NavNavigateNext
    \/ NavNavigatePrevious

SpecNav == InitNav /\ [][NextNav]_vars

NavUserMoves ==
    {"on_next_clicked", "on_prev_clicked", "toggle_confirmation",
     "on_file_selected"}

\* the last call was one of the four ways the user changes image, it
\* went to another image, and the image left had unsaved changes
NavMovedUnsaved ==
    /\ nav_out # <<>>
    /\ nav_out.op \in NavUserMoves
    /\ nav_out.unsaved
    /\ nav_pm.current_index # nav_out.pm.current_index

\* C22: when the user moves to another image (next, previous,
\* confirm-and-advance, file-list selection) while the current image has
\* unsaved changes, the .dat file of the image left holds the boxes the
\* canvas had, so that no edit is dropped by navigating.
C22_NavigationSavesFirst ==
    NavMovedUnsaved
        => nav_disk[nav_out.pm.current_image_path[1]] = DatFile(nav_out.boxes)


NavNavigations == {"navigate_to_image", "navigate_next", "navigate_previous"}

\* C28: after any sequence of load_directory, navigate_to_image,
\* navigate_next and navigate_previous, current_index is -1 when there are
\* no images and otherwise lies in 0 .. len(image_files) - 1, the two
\* current paths are those of image_files[current_index], and a navigation
\* that returned False left the index and the paths as they were and fired
\* no image-changed callback.
C28_NavigationState ==
    /\ IF nav_pm.image_files = <<>>
       THEN nav_pm.current_index = -1
       ELSE /\ nav_pm.current_index \in 0 .. Len(nav_pm.image_files) - 1
            /\ nav_pm.current_image_path =
                   ImagePath(nav_pm.image_files[nav_pm.current_index + 1])
            /\ nav_pm.current_dat_path = DatPath(nav_pm.current_image_path)
    /\ (nav_out # <<>> /\ nav_out.op \in NavNavigations /\ ~ nav_out.ret)
           => nav_pm = nav_out.pm /\ nav_out.fired = 0


\* ----------------------------------------------------------------------
\* The pointer-down dispatch of ImageCanvas
\* ----------------------------------------------------------------------

\* no gesture is in progress
GestNoGesture == ~panning /\ ~dragging /\ ~resizing /\ ~creating_box

\* the boxes of bs marked selected
SelectedSet(bs) == {i \in 1..Len(bs) : bs[i].selected}

\* What a press at drag_start' must have done, read off the state before
\* it and the state after it.
PressOutcome ==
    LET x == drag_start'[1]
        y == drag_start'[2]
        on_handle == /\ selected_box # 0
                     /\ HandleAt(boxes[selected_box], x, y, offset,
                                 scale_factor) # "none"
        under == BoxAt(boxes, canvas_to_image(x, offset[1], scale_factor),
                       canvas_to_image(y, offset[2], scale_factor))
    IN  /\ on_handle
            => /\ resizing' /\ ~dragging' /\ ~creating_box'
               /\ resize_handle' = HandleAt(boxes[selected_box], x, y,
                                            offset, scale_factor)
               /\ UNCHANGED <<boxes, selected_box>>
        /\ (~on_handle /\ under # 0)
            => /\ dragging' /\ ~resizing' /\ ~creating_box'
               /\ selected_box' = under
               /\ SelectedSet(boxes') = {under}
        /\ (~on_handle /\ under = 0)
            => /\ creating_box' /\ ~dragging' /\ ~resizing'
               /\ selected_box' = 0
               /\ SelectedSet(boxes') = {}

WestHandles == {"nw", "w", "sw"}
EastHandles == {"ne", "e", "se"}
NorthHandles == {"nw", "n", "ne"}
SouthHandles == {"sw", "s", "se"}

\* C24: after every pointer motion of a resize with handle h the edges of
\* the box that h does not own are where they were when the gesture
\* started (west edge x, east edge x + width, north edge y, south edge
\* y + height), and the box is at least 10 wide and 10 high.
C24_ResizeOwnedEdges ==
    (impl = "ImageCanvas" /\ g_last.op = "motion_resize")
        => LET b == boxes[g_last.idx]
               h == resize_handle
           IN  /\ h \notin WestHandles => b.x = box_start[1]
               /\ h \notin EastHandles
                      => b.x + b.width = box_start[1] + box_start[3]
               /\ h \notin NorthHandles => b.y = box_start[2]
               /\ h \notin SouthHandles
                      => b.y + b.height = box_start[2] + box_start[4]
               /\ b.width >= MinSize * Q
               /\ b.height >= MinSize * Q


\* ----------------------------------------------------------------------
\* Whole coordinates after a gesture
\* ----------------------------------------------------------------------

\* the four coordinates of the box are whole pixels
WholeBox(box) ==
    /\ box.x % Q = 0 /\ box.y % Q = 0
    /\ box.width % Q = 0 /\ box.height % Q = 0

\* C25: after the pointer-up that ends a drag or a resize, at any scale
\* factor, x, y, width and height of the box are integers, so that the
\* values written to the DAT file are the values read back.
C25_WholeOnRelease ==
    [][(Released /\ (dragging \/ resizing) /\ selected_box # 0)
           => WholeBox(boxes'[selected_box])]_vars


\* ----------------------------------------------------------------------
\* Zoom after a pan
\* ----------------------------------------------------------------------

\* pointer movements of a pan, in pixels
ZoomPanDeltas == {<<5, 0>>, <<-3, 4>>}

\* ImageCanvas.on_motion while panning, CanvasState.update_pan: the
\* offsets move by the pointer movement
ZoomPan ==
    /\ z_impl # "none"
    /\ z_pans < MaxZoomPans
    /\ z_pans' = z_pans + 1
    /\ \E d \in ZoomPanDeltas :
           z_offset' = <<z_offset[1] + d[1] * ZU, z_offset[2] + d[2] * ZU>>
    /\ UNCHANGED <<z_impl, zoom_level, base_scale_factor, z_scale, z_size,
                   z_run>>
    /\ UNCHANGED notZoom

NextZoomPan == ZoomIn \/ ZoomOut \/ ResetZoom \/ ZoomPan

SpecZoomPan == InitZoom /\ [][NextZoomPan]_vars

\* a hundredth of a pixel, for the rounding of the offsets
ZoomTolerance == ZU \div 100

\* offset' = center - (center - offset) * (new scale / old scale) on one
\* axis, up to rounding
CentreKept(i) ==
    LET twice_centre == z_size[i] * ZU
        expected == twice_centre * z_scale
                        - (twice_centre - 2 * z_offset[i]) * z_scale'
    IN  Abs(2 * z_offset'[i] * z_scale - expected)
            <= 2 * ZoomTolerance * z_scale

\* C26: after zoom_in, zoom_out or reset_zoom, in CanvasState and in
\* ImageCanvas, scale_factor is base_scale_factor * zoom_level and each
\* offset is center - (center - offset) * (new scale / old scale), so the
\* image point at the canvas centre stays, also after a pan.
C26_ZoomKeepsCentre ==
    [][(ZoomIn \/ ZoomOut \/ ResetZoom)
           => /\ z_scale' = ScaleOf(base_scale_factor', zoom_level')
              /\ CentreKept(1) /\ CentreKept(2)]_vars


\* ----------------------------------------------------------------------
\* The selection of ImageCanvas
\* ----------------------------------------------------------------------

\* at most one box is marked selected, and selected_box is that box when
\* there is one
SelectionConsistent ==
    /\ selected_box \in 0 .. Len(boxes)
    /\ SelectedSet(boxes) \subseteq {selected_box}
    /\ Cardinality(SelectedSet(boxes)) <= 1

\* the Delete key took the selected box out of the list and nothing else
DeletedExactly ==
    /\ Len(boxes') = Len(boxes) - 1
    /\ \A i \in 1 .. Len(boxes') :
           boxes'[i] = IF i < selected_box THEN boxes[i] ELSE boxes[i + 1]
    /\ selected_box' = 0
    /\ SelectedSet(boxes') = {}

\* C27: in ImageCanvas, after any sequence of set_boxes, pointer press,
\* release and motion, and Delete, Tab and Escape, at most one box is
\* marked selected and selected_box is none or that box of the list;
\* Delete removes exactly the selected box, leaves the others as they
\* were and clears the selection.
C27_SelectionConsistent ==
    [][impl = "ImageCanvas"
           => /\ SelectionConsistent /\ SelectionConsistent'
              /\ KeyDelete => DeletedExactly]_vars

\* the second of two boxes was selected and deleted
C27_Witness ==
    /\ impl = "ImageCanvas"
    /\ g_last.op = "key_delete"
    /\ Len(boxes) = 1
    /\ boxes[1].class_id = 1
    /\ selected_box = 0


\* ----------------------------------------------------------------------
\* The pointer release
\* ----------------------------------------------------------------------

\* C29: after every on_click_released of ImageCanvas and every
\* end_interactions of CanvasState, whatever flags were set before,
\* panning, dragging, resizing and creating_box are false and
\* resize_handle is None; when no flag was set before, the boxes and the
\* selection are as they were.
C29_ReleaseToIdle ==
    [][(Released \/ end_interactions)
           => /\ ~panning' /\ ~dragging' /\ ~resizing' /\ ~creating_box'
              /\ resize_handle' = "none"
              /\ GestNoGesture => UNCHANGED <<boxes, selected_box>>]_vars

\* a release ended the creation of a box
C29_Witness ==
    /\ impl = "ImageCanvas"
    /\ g_last.op = "release_create"
    /\ g_last.idx # 0
    /\ GestNoGesture
    /\ resize_handle = "none"


\* ======================================================================
\* RotationManager (core/image_rotation.py): the rotation of the image
\* shown, kept as an angle applied to the original pixbuf.
\* ======================================================================

MaxRmAngles == 3

\* the angles the callers pass: a quarter turn either way, a half turn
RmAngles == {-90, 90, 180}

RECURSIVE SumOf(_)
SumOf(s) == IF s = <<>> THEN 0 ELSE s[1] + SumOf(Tail(s))

RmState ==
    [original_pixbuf |-> original_pixbuf,
     current_rotation |-> current_rotation,
     has_unsaved_rotation |-> has_unsaved_rotation]

RmCall(op, arg, ret) == [op |-> op, arg |-> arg, ret |-> ret, before |-> RmState]

\* RotationManager.__init__
RmInit ==
    /\ original_pixbuf = FALSE
    /\ current_rotation = 0
    /\ has_unsaved_rotation = FALSE
    /\ rm_applied = <<>>
    /\ rm_out = <<>>

\* a faulty rotate that adds the angle and does not reduce the sum
rotate_unreduced(m, angle) ==
    IF ~ m.original_pixbuf THEN [m |-> m, ret |-> FALSE]
    ELSE LET total == m.current_rotation + angle
         IN  [m |-> [m EXCEPT !.current_rotation = total,
                              !.has_unsaved_rotation = (total # 0)],
              ret |-> TRUE]

\* RotationManager.rotate
rotate(m, angle) ==
    IF ~ m.original_pixbuf THEN [m |-> m, ret |-> FALSE]
    ELSE LET total == (m.current_rotation + angle) % 360
         IN  [m |-> [m EXCEPT !.current_rotation = total,
                              !.has_unsaved_rotation = (total # 0)],
              ret |-> TRUE]

RmAssign(m) ==
    /\ original_pixbuf' = m.original_pixbuf
    /\ current_rotation' = m.current_rotation
    /\ has_unsaved_rotation' = m.has_unsaved_rotation

\* RotationManager.load_image; when the file cannot be read the exception
\* is caught before anything was assigned
RmLoadImage ==
    \E readable \in BOOLEAN :
        /\ IF readable
           THEN /\ RmAssign([original_pixbuf |-> TRUE, current_rotation |-> 0,
                             has_unsaved_rotation |-> FALSE])
                /\ rm_applied' = <<>>
           ELSE UNCHANGED <<original_pixbuf, current_rotation,
                            has_unsaved_rotation, rm_applied>>
        /\ rm_out' = RmCall("load_image", 0, readable)
        /\ UNCHANGED notRm

RmRotate ==
    \E angle \in RmAngles :
        /\ Len(rm_applied) < MaxRmAngles
        /\ LET r == rotate(RmState, angle)
           IN  /\ RmAssign(r.m)
               /\ rm_applied' = IF r.ret THEN Append(rm_applied, angle)
                                ELSE rm_applied
               /\ rm_out' = RmCall("rotate", angle, r.ret)
        /\ UNCHANGED notRm

\* RotationManager.reset_rotation
RmResetRotation ==
    /\ IF original_pixbuf
       THEN /\ current_rotation' = 0
            /\ has_unsaved_rotation' = FALSE
            /\ rm_applied' = <<>>
       ELSE UNCHANGED <<current_rotation, has_unsaved_rotation, rm_applied>>
    /\ rm_out' = RmCall("reset_rotation", 0, TRUE)
    /\ UNCHANGED original_pixbuf
    /\ UNCHANGED notRm

\* RotationManager.save_rotated_image: an overwrite that succeeds makes
\* the rotated image the original; a save under another name, and a save
\* that fails, change nothing
RmSaveRotatedImage ==
    \E overwrite \in BOOLEAN, success \in BOOLEAN :
        /\ original_pixbuf
        /\ IF current_rotation # 0 /\ overwrite /\ success
           THEN /\ current_rotation' = 0
                /\ has_unsaved_rotation' = FALSE
                /\ rm_applied' = <<>>
           ELSE UNCHANGED <<current_rotation, has_unsaved_rotation,
                            rm_applied>>
        /\ rm_out' = RmCall("save_rotated_image", overwrite,
                            current_rotation = 0 \/ success)
        /\ UNCHANGED original_pixbuf
        /\ UNCHANGED notRm

InitRm == RmInit /\ DatIdle /\ SaveIdle /\ GestIdle /\ OcrIdle /\ XfIdle
              /\ ZoomIdle /\ RotIdle /\ DbIdle /\ ValIdle /\ RegIdle
              /\ HistIdle /\ ClsIdle /\ GeoIdle /\ FitIdle /\ NavIdle

NextRm == RmLoadImage \/ RmRotate \/ RmResetRotation \/ RmSaveRotatedImage

SpecRm == InitRm /\ [][NextRm]_vars

\* C30: current_rotation is within 0 .. 359 and is the sum, modulo 360, of
\* the angles applied since the last load, reset or overwriting save;
\* has_unsaved_rotation is true exactly when current_rotation is not 0; a
\* rotate before any image is loaded returns False and changes nothing.
C30_RotationState ==
    /\ current_rotation \in 0 .. 359
    /\ current_rotation = SumOf(rm_applied) % 360
    /\ has_unsaved_rotation <=> (current_rotation # 0)
    /\ (rm_out # <<>> /\ rm_out.op = "rotate"
            /\ ~ rm_out.before.original_pixbuf)
           => ~ rm_out.ret /\ RmState = rm_out.before

\* two quarter turns back and a half turn brought the image to 0 again
C30_Witness ==
    /\ rm_applied = <<-90, -90, 180>>
    /\ current_rotation = 0
    /\ ~ has_unsaved_rotation

===========================================================================
